---- MODULE Spec2Model ----
(***************************************************************************)
(* EncryptedVotingSystem: the ballot ledger contract.                      *)
(*                                                                         *)
(* Every external function of the contract is a pure operator on a ledger  *)
(* snapshot that returns the revert reason ("" on success), the return     *)
(* value and the storage at the point of return. A transaction commits    *)
(* that storage when the call succeeds and restores the storage it started *)
(* from when the call reverts (EVM semantics), so a reverted call is a     *)
(* stuttering step of the ledger.                                          *)
(***************************************************************************)
EXTENDS Integers, Sequences, FiniteSets, Bags, TLC

(* ---- bounds of the model ---- *)
NumAddr == 2
MaxVotes == 2
MaxDays == 2
MaxBatch == 2
MaxEvents == 4
MaxRequests == 1
\* the decryption sessions and the ballots of the coordinator's specification
MaxSessions == 2
\* the ballot ids the hook's calls name, and the days its clock moves
MaxCoordVotes == 1
MaxCoordDays == 1

(* ---- constants of the contract ---- *)
ZeroAddr == 0
Day == 86400
MaxDuration == 365
BatchCastLimit == 5
BatchInitLimit == 10
MaxOptions == 10

Addr == 1 .. NumAddr
This == NumAddr + 1
Principals == Addr \cup {This}
\* vote ids named in calls; the mappings keyed by vote id are modelled on SlotIds
VoteIds == 0 .. MaxVotes
SlotIds == 0 .. (MaxVotes + 1)
Moments == {Day * d : d \in 1 .. (MaxDays + 1)}

(* ---- input spaces ---- *)
Choices == {0, 1}
\* createVote arguments: a valid call and calls that differ from it in one argument
ValidCreate ==
    [title |-> "T", description |-> "D", options |-> <<"A", "B">>, durationInDays |-> 1]
CreateArgs ==
    {ValidCreate, [ValidCreate EXCEPT !.durationInDays = MaxDuration],
     [ValidCreate EXCEPT !.durationInDays = 0],
     [ValidCreate EXCEPT !.durationInDays = MaxDuration + 1],
     [ValidCreate EXCEPT !.title = ""], [ValidCreate EXCEPT !.description = ""],
     [ValidCreate EXCEPT !.options = <<"A">>]}
\* an externally encrypted option index is named by the index it encrypts;
\* an input proof is one the gateway accepts (TRUE) or rejects (FALSE)
Proofs == BOOLEAN
CastInputs == {<<0, TRUE>>, <<1, TRUE>>, <<0, FALSE>>}
\* what a caller may encrypt: an option of the ballot, or the first index past
\* the options
FreeChoices == Choices \cup {Len(ValidCreate.options)}
Handles == Addr \X FreeChoices

VARIABLES now, owner, nextVoteId, votes, encryptedVoteChoices, hasVoted,
          voteCount, acl, events

\* the frontend hook (one instance per connected address): its React state, its
\* localStorage entries, the refreshVote calls its castVote has pending and its
\* decryption sessions; the FHEVM instance it uses
VARIABLES userVotes, decryptedResults, decryptedUserVotes, localStorage,
          refreshing, sessions, hasGenerateKeypair, keypairs

\* one mounted instance of the hook whose connected wallet address changes: the
\* `address` it is rendered with and its decryptedResults and
\* decryptedUserVotes states
VARIABLES wallet
\* one call of getParticipationRate: the cast count it reads, its argument and,
\* once it has run, its outcome
VARIABLES rateCall

hookVars == <<userVotes, decryptedResults, decryptedUserVotes, localStorage,
              refreshing, sessions, hasGenerateKeypair, keypairs>>
ledgerVars == <<owner, nextVoteId, votes, encryptedVoteChoices, hasVoted,
                voteCount, acl, events>>
vars == <<now, owner, nextVoteId, votes, encryptedVoteChoices, hasVoted,
          voteCount, acl, events, userVotes, decryptedResults, decryptedUserVotes,
          localStorage, refreshing, sessions, hasGenerateKeypair, keypairs,
          wallet, rateCall>>

\* the zero-initialised storage slot of mapping `votes`
NoVote ==
    [title |-> "", description |-> "", options |-> <<>>, startTime |-> 0,
     endTime |-> 0, active |-> FALSE, creator |-> ZeroAddr]

\* the contract's storage (and the gateway's ACL and the event log) as one value
Ledger ==
    [owner |-> owner, nextVoteId |-> nextVoteId, votes |-> votes,
     encryptedVoteChoices |-> encryptedVoteChoices, hasVoted |-> hasVoted,
     voteCount |-> voteCount, acl |-> acl, events |-> events]

Ok(L, ret) == [err |-> "", ret |-> ret, state |-> L]
Revert(L, reason) == [err |-> reason, ret |-> 0, state |-> L]

Emit(L, e) == [L EXCEPT !.events = @ (+) SetToBag({e})]

(* ---- the gateway (FHE library) as used by the contract ---- *)
\* FHE.fromExternal: the handle of the verified input, bound to its sender;
\* the call reverts when the gateway rejects the input proof
\* (variant: the input proof is not verified)
ProofRejected_Never(encrypted, inputProof) == FALSE
ProofRejected(encrypted, inputProof) == ~inputProof
FromExternal(sender, encrypted) == <<sender, encrypted>>
\* FHE.allow / FHE.allowThis
Allow(L, h, p) == [L EXCEPT !.acl[h] = @ \cup {p}]

(* ---- createVote ---- *)
(* ---- transferOwnership ---- *)
TransferOwnership(L, sender, newOwner) ==
    IF sender # L.owner THEN Revert(L, "Only owner can transfer ownership")
    ELSE IF newOwner = ZeroAddr THEN Revert(L, "New owner cannot be zero address")
    ELSE Ok([L EXCEPT !.owner = newOwner], 0)

\* (variant: the duration has no upper limit)
CreateVote_NoUpperBound(L, sender, t, title, description, options, durationInDays) ==
    IF title = "" THEN Revert(L, "Title cannot be empty")
    ELSE IF description = "" THEN Revert(L, "Description cannot be empty")
    ELSE IF ~(Len(options) >= 2) THEN Revert(L, "Must have at least 2 options")
    ELSE IF ~(durationInDays > 0) THEN Revert(L, "Duration must be between 1-365 days")
    ELSE LET voteId == L.nextVoteId
             startTime == t
             endTime == startTime + durationInDays * Day
             L1 == [L EXCEPT !.nextVoteId = @ + 1,
                             !.votes[voteId] =
                                 [title |-> title, description |-> description,
                                  options |-> options, startTime |-> startTime,
                                  endTime |-> endTime, active |-> TRUE,
                                  creator |-> sender]]
         IN Ok(Emit(L1, <<"VoteCreated", voteId, sender>>), voteId)

\* (variant: voteId = ++_nextVoteId)
CreateVote_PreIncrement(L, sender, t, title, description, options, durationInDays) ==
    IF title = "" THEN Revert(L, "Title cannot be empty")
    ELSE IF description = "" THEN Revert(L, "Description cannot be empty")
    ELSE IF ~(Len(options) >= 2) THEN Revert(L, "Must have at least 2 options")
    ELSE IF ~(durationInDays > 0 /\ durationInDays <= MaxDuration)
         THEN Revert(L, "Duration must be between 1-365 days")
    ELSE LET voteId == L.nextVoteId + 1
             startTime == t
             endTime == startTime + durationInDays * Day
             L1 == [L EXCEPT !.nextVoteId = @ + 1,
                             !.votes[voteId] =
                                 [title |-> title, description |-> description,
                                  options |-> options, startTime |-> startTime,
                                  endTime |-> endTime, active |-> TRUE,
                                  creator |-> sender]]
         IN Ok(Emit(L1, <<"VoteCreated", voteId, sender>>), voteId)

\* (variant: the id counter is left as it is)
CreateVote_NoIncrement(L, sender, t, title, description, options, durationInDays) ==
    IF title = "" THEN Revert(L, "Title cannot be empty")
    ELSE IF description = "" THEN Revert(L, "Description cannot be empty")
    ELSE IF ~(Len(options) >= 2) THEN Revert(L, "Must have at least 2 options")
    ELSE IF ~(durationInDays > 0 /\ durationInDays <= MaxDuration)
         THEN Revert(L, "Duration must be between 1-365 days")
    ELSE LET voteId == L.nextVoteId
             startTime == t
             endTime == startTime + durationInDays * Day
             L1 == [L EXCEPT !.votes[voteId] =
                                 [title |-> title, description |-> description,
                                  options |-> options, startTime |-> startTime,
                                  endTime |-> endTime, active |-> TRUE,
                                  creator |-> sender]]
         IN Ok(Emit(L1, <<"VoteCreated", voteId, sender>>), voteId)

CreateVote(L, sender, t, title, description, options, durationInDays) ==
    IF title = "" THEN Revert(L, "Title cannot be empty")
    ELSE IF description = "" THEN Revert(L, "Description cannot be empty")
    ELSE IF ~(Len(options) >= 2) THEN Revert(L, "Must have at least 2 options")
    ELSE IF ~(durationInDays > 0 /\ durationInDays <= MaxDuration)
         THEN Revert(L, "Duration must be between 1-365 days")
    ELSE LET voteId == L.nextVoteId
             startTime == t
             endTime == startTime + durationInDays * Day
             L1 == [L EXCEPT !.nextVoteId = @ + 1,
                             !.votes[voteId] =
                                 [title |-> title, description |-> description,
                                  options |-> options, startTime |-> startTime,
                                  endTime |-> endTime, active |-> TRUE,
                                  creator |-> sender]]
         IN Ok(Emit(L1, <<"VoteCreated", voteId, sender>>), voteId)

(* ---- castVote ---- *)
\* lines 122-135 (and 275-284 of batchCastVotes): record the cast
\* (variant: the vote counter is not incremented)
StoreCast_NoCount(L, voteId, sender, optionId) ==
    LET L1 == [L EXCEPT !.hasVoted[voteId] = @ \cup {sender},
                        !.encryptedVoteChoices[voteId] = Append(@, optionId)]
        L2 == Allow(Allow(L1, optionId, This), optionId, sender)
    IN Emit(L2, <<"VoteCast", voteId, sender>>)

\* (variant: the cast record is not written)
StoreCast_NoMark(L, voteId, sender, optionId) ==
    LET L1 == [L EXCEPT !.encryptedVoteChoices[voteId] = Append(@, optionId),
                        !.voteCount[voteId] = @ + 1]
        L2 == Allow(Allow(L1, optionId, This), optionId, sender)
    IN Emit(L2, <<"VoteCast", voteId, sender>>)

\* (variant: FHE.allowThis is not called)
StoreCast_NoAllowThis(L, voteId, sender, optionId) ==
    LET L1 == [L EXCEPT !.hasVoted[voteId] = @ \cup {sender},
                        !.encryptedVoteChoices[voteId] = Append(@, optionId),
                        !.voteCount[voteId] = @ + 1]
        L2 == Allow(L1, optionId, sender)
    IN Emit(L2, <<"VoteCast", voteId, sender>>)

\* (variant: the handle is put in front of the list)
StoreCast_Prepends(L, voteId, sender, optionId) ==
    LET L1 == [L EXCEPT !.hasVoted[voteId] = @ \cup {sender},
                        !.encryptedVoteChoices[voteId] = <<optionId>> \o @,
                        !.voteCount[voteId] = @ + 1]
        L2 == Allow(Allow(L1, optionId, This), optionId, sender)
    IN Emit(L2, <<"VoteCast", voteId, sender>>)

\* (variant: a cast raises the count by two)
StoreCast_CountsTwice(L, voteId, sender, optionId) ==
    LET L1 == [L EXCEPT !.hasVoted[voteId] = @ \cup {sender},
                        !.encryptedVoteChoices[voteId] = Append(@, optionId),
                        !.voteCount[voteId] = @ + 2]
        L2 == Allow(Allow(L1, optionId, This), optionId, sender)
    IN Emit(L2, <<"VoteCast", voteId, sender>>)

StoreCast(L, voteId, sender, optionId) ==
    LET L1 == [L EXCEPT !.hasVoted[voteId] = @ \cup {sender},
                        !.encryptedVoteChoices[voteId] = Append(@, optionId),
                        !.voteCount[voteId] = @ + 1]
        L2 == Allow(Allow(L1, optionId, This), optionId, sender)
    IN Emit(L2, <<"VoteCast", voteId, sender>>)

\* (variant: the already-voted check is missing)
CastVote_NoDoubleCheck(L, sender, t, voteId, encryptedOptionId, inputProof) ==
    IF ~L.votes[voteId].active
    THEN Revert(L, "Vote does not exist or is not active")
    ELSE IF ~(t >= L.votes[voteId].startTime)
    THEN Revert(L, "Voting has not started yet")
    ELSE IF ~(t <= L.votes[voteId].endTime) THEN Revert(L, "Voting has ended")
    ELSE IF ProofRejected(encryptedOptionId, inputProof)
    THEN Revert(L, "Invalid input proof")
    ELSE Ok(StoreCast(L, voteId, sender, FromExternal(sender, encryptedOptionId)), 0)

\* (variant: the end of the voting period is not checked)
CastVote_NoEndCheck(L, sender, t, voteId, encryptedOptionId, inputProof) ==
    IF ~L.votes[voteId].active
    THEN Revert(L, "Vote does not exist or is not active")
    ELSE IF ~(t >= L.votes[voteId].startTime)
    THEN Revert(L, "Voting has not started yet")
    ELSE IF sender \in L.hasVoted[voteId]
    THEN Revert(L, "Already voted in this vote")
    ELSE IF ProofRejected(encryptedOptionId, inputProof)
    THEN Revert(L, "Invalid input proof")
    ELSE Ok(StoreCast(L, voteId, sender, FromExternal(sender, encryptedOptionId)), 0)

\* (variant: the active flag is not checked)
CastVote_NoActiveCheck(L, sender, t, voteId, encryptedOptionId, inputProof) ==
    IF ~(t >= L.votes[voteId].startTime)
    THEN Revert(L, "Voting has not started yet")
    ELSE IF ~(t <= L.votes[voteId].endTime) THEN Revert(L, "Voting has ended")
    ELSE IF sender \in L.hasVoted[voteId]
    THEN Revert(L, "Already voted in this vote")
    ELSE IF ProofRejected(encryptedOptionId, inputProof)
    THEN Revert(L, "Invalid input proof")
    ELSE Ok(StoreCast(L, voteId, sender, FromExternal(sender, encryptedOptionId)), 0)

CastVote(L, sender, t, voteId, encryptedOptionId, inputProof) ==
    IF ~L.votes[voteId].active
    THEN Revert(L, "Vote does not exist or is not active")
    ELSE IF ~(t >= L.votes[voteId].startTime)
    THEN Revert(L, "Voting has not started yet")
    ELSE IF ~(t <= L.votes[voteId].endTime) THEN Revert(L, "Voting has ended")
    ELSE IF sender \in L.hasVoted[voteId]
    THEN Revert(L, "Already voted in this vote")
    ELSE IF ProofRejected(encryptedOptionId, inputProof)
    THEN Revert(L, "Invalid input proof")
    ELSE Ok(StoreCast(L, voteId, sender, FromExternal(sender, encryptedOptionId)), 0)

(* ---- endVote ---- *)
\* (variant: the closing time is written into the ballot's endTime)
EndVote_StampsEnd(L, sender, t, voteId) ==
    IF ~L.votes[voteId].active THEN Revert(L, "Vote is already ended")
    ELSE IF ~(t >= L.votes[voteId].endTime)
    THEN Revert(L, "Voting end time not reached")
    ELSE Ok(Emit([L EXCEPT !.votes[voteId].active = FALSE,
                           !.votes[voteId].endTime = t],
                 <<"VotingEnded", voteId, ZeroAddr>>), 0)

\* (variant: the end time is not checked)
EndVote_NoTimeCheck(L, sender, t, voteId) ==
    IF ~L.votes[voteId].active THEN Revert(L, "Vote is already ended")
    ELSE Ok(Emit([L EXCEPT !.votes[voteId].active = FALSE],
                 <<"VotingEnded", voteId, ZeroAddr>>), 0)

\* (variant: the active flag is not checked)
EndVote_NoActiveCheck(L, sender, t, voteId) ==
    IF ~(t >= L.votes[voteId].endTime)
    THEN Revert(L, "Voting end time not reached")
    ELSE Ok(Emit([L EXCEPT !.votes[voteId].active = FALSE],
                 <<"VotingEnded", voteId, ZeroAddr>>), 0)

\* (variant: only the creator may end the vote)
EndVote_OnlyCreator(L, sender, t, voteId) ==
    IF ~L.votes[voteId].active THEN Revert(L, "Vote is already ended")
    ELSE IF ~(t >= L.votes[voteId].endTime)
    THEN Revert(L, "Voting end time not reached")
    ELSE IF sender # L.votes[voteId].creator THEN Revert(L, "Only creator")
    ELSE Ok(Emit([L EXCEPT !.votes[voteId].active = FALSE],
                 <<"VotingEnded", voteId, ZeroAddr>>), 0)

\* (variant: closing emits no event)
EndVote_Silent(L, sender, t, voteId) ==
    IF ~L.votes[voteId].active THEN Revert(L, "Vote is already ended")
    ELSE IF ~(t >= L.votes[voteId].endTime)
    THEN Revert(L, "Voting end time not reached")
    ELSE Ok([L EXCEPT !.votes[voteId].active = FALSE], 0)

EndVote(L, sender, t, voteId) ==
    IF ~L.votes[voteId].active THEN Revert(L, "Vote is already ended")
    ELSE IF ~(t >= L.votes[voteId].endTime)
    THEN Revert(L, "Voting end time not reached")
    ELSE Ok(Emit([L EXCEPT !.votes[voteId].active = FALSE],
                 <<"VotingEnded", voteId, ZeroAddr>>), 0)

(* ---- views ---- *)
GetVoteCount(L, voteId) == L.voteCount[voteId]
GetEncryptedVoteChoices(L, voteId) == L.encryptedVoteChoices[voteId]
HasVotedInVote(L, voteId, user) == user \in L.hasVoted[voteId]
GetNextVoteId(L) == L.nextVoteId
GetVote(L, voteId) == L.votes[voteId]
\* getVoteStatistics at block time t
GetVoteStatistics(L, t, voteId) ==
    LET voteData == L.votes[voteId]
        totalVotes == L.voteCount[voteId]
    IN IF ~(voteData.creator # ZeroAddr) THEN Revert(L, "Vote does not exist")
       ELSE Ok(L, [totalVotes |-> totalVotes, uniqueVoters |-> totalVotes,
                   isActive |-> voteData.active /\ t < voteData.endTime])
ValidateVoteOption(L, voteId, optionIndex) ==
    LET voteData == L.votes[voteId]
    IN IF voteData.creator = ZeroAddr THEN FALSE
       ELSE optionIndex < Len(voteData.options)

(* ---- getParticipationRate ---- *)
\* the largest uint32 whose product with 100 is a uint32: (2^32 - 1) \div 100
MaxMultiplicand == 42949672
\* the arithmetic of getParticipationRate on the uint32 cast count: the checked
\* uint32 product actualVotes * 100 panics when it does not fit in 32 bits
RateOf(actualVotes, expectedParticipants) ==
    IF expectedParticipants = 0
    THEN [err |-> "", ret |-> [participationRate |-> 0, actualVotes |-> actualVotes]]
    ELSE IF actualVotes > MaxMultiplicand
    THEN [err |-> "Panic(0x11)", ret |-> <<>>]
    ELSE LET participationRate == (actualVotes * 100) \div expectedParticipants
         IN [err |-> "",
             ret |-> [participationRate |->
                          IF participationRate > 100 THEN 100 ELSE participationRate,
                      actualVotes |-> actualVotes]]
GetParticipationRate(L, voteId, expectedParticipants) ==
    IF L.votes[voteId].creator = ZeroAddr THEN Revert(L, "Vote does not exist")
    ELSE LET r == RateOf(L.voteCount[voteId], expectedParticipants)
         IN IF r.err # "" THEN Revert(L, r.err) ELSE Ok(L, r.ret)

(* ---- requestDecryptVoteResults ---- *)
\* (variant: only FHE.allowThis is called in the loop)
RECURSIVE GrantLoop_OnlyThis(_, _, _, _)
GrantLoop_OnlyThis(L, sender, results, i) ==
    IF i > Len(results) THEN L
    ELSE GrantLoop_OnlyThis(Allow(L, results[i], This), sender, results, i + 1)

RECURSIVE GrantLoop(_, _, _, _)
GrantLoop(L, sender, results, i) ==
    IF i > Len(results) THEN L
    ELSE GrantLoop(Allow(Allow(L, results[i], This), results[i], sender),
                   sender, results, i + 1)

\* (variant: the request also closes the ballot)
RequestDecryptVoteResults_Closes(L, sender, voteId, requestId) ==
    LET encryptedResults == L.encryptedVoteChoices[voteId]
        L1 == GrantLoop(L, sender, encryptedResults, 1)
        L2 == [L1 EXCEPT !.votes[voteId].active = FALSE]
    IN Ok(Emit(L2, <<"VoteDecrypted", voteId, sender>>), encryptedResults)

RequestDecryptVoteResults(L, sender, voteId, requestId) ==
    LET encryptedResults == L.encryptedVoteChoices[voteId]
        L1 == GrantLoop(L, sender, encryptedResults, 1)
    IN Ok(Emit(L1, <<"VoteDecrypted", voteId, sender>>), encryptedResults)

(* ---- batchCastVotes ---- *)
\* (variant: an element that fails a check is skipped instead of reverting)
RECURSIVE BatchCastLoop_SkipInvalid(_, _, _, _, _, _, _)
BatchCastLoop_SkipInvalid(L, sender, t, voteIds, encryptedChoices, inputProofs, i) ==
    IF i > Len(voteIds) THEN Ok(L, 0)
    ELSE LET voteId == voteIds[i]
             voteData == L.votes[voteId]
             skip == \/ voteData.creator = ZeroAddr
                     \/ ~(voteData.active /\ t >= voteData.startTime
                          /\ t <= voteData.endTime)
                     \/ sender \in L.hasVoted[voteId]
                     \/ ProofRejected(encryptedChoices[i], inputProofs[i])
         IN BatchCastLoop_SkipInvalid(
                IF skip THEN L
                ELSE StoreCast(L, voteId, sender,
                               FromExternal(sender, encryptedChoices[i])),
                sender, t, voteIds, encryptedChoices, inputProofs, i + 1)

\* (variant: the voting period is not compared with block.timestamp)
RECURSIVE BatchCastLoop_NoWindow(_, _, _, _, _, _, _)
BatchCastLoop_NoWindow(L, sender, t, voteIds, encryptedChoices, inputProofs, i) ==
    IF i > Len(voteIds) THEN Ok(L, 0)
    ELSE LET voteId == voteIds[i]
             voteData == L.votes[voteId]
         IN IF voteData.creator = ZeroAddr THEN Revert(L, "Vote does not exist")
            ELSE IF ~voteData.active THEN Revert(L, "Vote not active")
            ELSE IF sender \in L.hasVoted[voteId] THEN Revert(L, "Already voted")
            ELSE IF ProofRejected(encryptedChoices[i], inputProofs[i])
            THEN Revert(L, "Invalid input proof")
            ELSE BatchCastLoop_NoWindow(
                     StoreCast(L, voteId, sender,
                               FromExternal(sender, encryptedChoices[i])),
                     sender, t, voteIds, encryptedChoices, inputProofs, i + 1)

\* (variant: an element is not compared with the casts already stored)
RECURSIVE BatchCastLoop_NoVotedCheck(_, _, _, _, _, _, _)
BatchCastLoop_NoVotedCheck(L, sender, t, voteIds, encryptedChoices, inputProofs, i) ==
    IF i > Len(voteIds) THEN Ok(L, 0)
    ELSE LET voteId == voteIds[i]
             voteData == L.votes[voteId]
         IN IF voteData.creator = ZeroAddr THEN Revert(L, "Vote does not exist")
            ELSE IF ~(voteData.active /\ t >= voteData.startTime
                      /\ t <= voteData.endTime)
            THEN Revert(L, "Vote not active")
            ELSE IF ProofRejected(encryptedChoices[i], inputProofs[i])
            THEN Revert(L, "Invalid input proof")
            ELSE BatchCastLoop_NoVotedCheck(
                     StoreCast(L, voteId, sender,
                               FromExternal(sender, encryptedChoices[i])),
                     sender, t, voteIds, encryptedChoices, inputProofs, i + 1)

RECURSIVE BatchCastLoop(_, _, _, _, _, _, _)
BatchCastLoop(L, sender, t, voteIds, encryptedChoices, inputProofs, i) ==
    IF i > Len(voteIds) THEN Ok(L, 0)
    ELSE LET voteId == voteIds[i]
             voteData == L.votes[voteId]
         IN IF voteData.creator = ZeroAddr THEN Revert(L, "Vote does not exist")
            ELSE IF ~(voteData.active /\ t >= voteData.startTime
                      /\ t <= voteData.endTime)
            THEN Revert(L, "Vote not active")
            ELSE IF sender \in L.hasVoted[voteId] THEN Revert(L, "Already voted")
            ELSE IF ProofRejected(encryptedChoices[i], inputProofs[i])
            THEN Revert(L, "Invalid input proof")
            ELSE BatchCastLoop(
                     StoreCast(L, voteId, sender,
                               FromExternal(sender, encryptedChoices[i])),
                     sender, t, voteIds, encryptedChoices, inputProofs, i + 1)

\* (variant: the batch size has no ceiling)
BatchCastVotes_NoCeiling(L, sender, t, voteIds, encryptedChoices, inputProofs) ==
    IF Len(voteIds) # Len(encryptedChoices) THEN Revert(L, "Array length mismatch")
    ELSE IF Len(voteIds) # Len(inputProofs) THEN Revert(L, "Array length mismatch")
    ELSE IF ~(Len(voteIds) > 0) THEN Revert(L, "Cannot cast empty batch")
    ELSE BatchCastLoop(L, sender, t, voteIds, encryptedChoices, inputProofs, 1)

BatchCastVotes(L, sender, t, voteIds, encryptedChoices, inputProofs) ==
    IF Len(voteIds) # Len(encryptedChoices) THEN Revert(L, "Array length mismatch")
    ELSE IF Len(voteIds) # Len(inputProofs) THEN Revert(L, "Array length mismatch")
    ELSE IF ~(Len(voteIds) > 0) THEN Revert(L, "Cannot cast empty batch")
    ELSE IF ~(Len(voteIds) <= BatchCastLimit)
    THEN Revert(L, "Batch size limited to 5 votes for gas efficiency")
    ELSE BatchCastLoop(L, sender, t, voteIds, encryptedChoices, inputProofs, 1)

(* ---- batchInitializeVotes ---- *)
RECURSIVE BatchInitLoop(_, _, _, _, _, _, _, _)
BatchInitLoop(L, sender, titles, descriptions, optionsList, startTimes, endTimes, i) ==
    IF i > Len(titles) THEN Ok(L, 0)
    ELSE IF ~(Len(optionsList[i]) >= 2)
    THEN Revert(L, "Each vote must have at least 2 options")
    ELSE IF ~(Len(optionsList[i]) <= MaxOptions)
    THEN Revert(L, "Each vote limited to 10 options")
    ELSE IF ~(startTimes[i] < endTimes[i])
    THEN Revert(L, "Start time must be before end time")
    ELSE LET L1 == [L EXCEPT !.votes[L.nextVoteId] =
                        [title |-> titles[i], description |-> descriptions[i],
                         options |-> optionsList[i], startTime |-> startTimes[i],
                         endTime |-> endTimes[i], active |-> TRUE,
                         creator |-> sender]]
             L2 == Emit(L1, <<"VoteCreated", L.nextVoteId, sender>>)
             L3 == [L2 EXCEPT !.nextVoteId = @ + 1]
         IN BatchInitLoop(L3, sender, titles, descriptions, optionsList,
                          startTimes, endTimes, i + 1)

\* (variant: the batch size has no ceiling)
BatchInitializeVotes_NoCeiling(L, sender, titles, descriptions, optionsList, startTimes, endTimes) ==
    IF Len(titles) # Len(descriptions) THEN Revert(L, "Array length mismatch")
    ELSE IF Len(titles) # Len(optionsList) THEN Revert(L, "Array length mismatch")
    ELSE IF Len(titles) # Len(startTimes) THEN Revert(L, "Array length mismatch")
    ELSE IF Len(titles) # Len(endTimes) THEN Revert(L, "Array length mismatch")
    ELSE IF ~(Len(titles) > 0) THEN Revert(L, "Cannot initialize empty batch")
    ELSE BatchInitLoop(L, sender, titles, descriptions, optionsList, startTimes,
                       endTimes, 1)

BatchInitializeVotes(L, sender, titles, descriptions, optionsList, startTimes, endTimes) ==
    IF Len(titles) # Len(descriptions) THEN Revert(L, "Array length mismatch")
    ELSE IF Len(titles) # Len(optionsList) THEN Revert(L, "Array length mismatch")
    ELSE IF Len(titles) # Len(startTimes) THEN Revert(L, "Array length mismatch")
    ELSE IF Len(titles) # Len(endTimes) THEN Revert(L, "Array length mismatch")
    ELSE IF ~(Len(titles) > 0) THEN Revert(L, "Cannot initialize empty batch")
    ELSE IF ~(Len(titles) <= BatchInitLimit)
    THEN Revert(L, "Batch size limited to 10 votes for gas efficiency")
    ELSE BatchInitLoop(L, sender, titles, descriptions, optionsList,
                       startTimes, endTimes, 1)

(* ---- inputs of the batch functions ---- *)
\* all sequences over S of length 0 .. n
SeqsUpTo(S, n) == UNION {[1 .. k -> S] : k \in 0 .. n}
DropLast(s) == SubSeq(s, 1, Len(s) - 1)

BatchWindows == {<<Day, 2 * Day>>, <<2 * Day, 3 * Day>>, <<2 * Day, Day>>}
BallotDefs ==
    {[title |-> "T", description |-> "D", options |-> <<"A", "B">>,
      startTime |-> w[1], endTime |-> w[2]] : w \in BatchWindows}
    \cup {[title |-> "T", description |-> "D", options |-> <<"A">>,
           startTime |-> Day, endTime |-> 2 * Day]}
    \cup {[title |-> "", description |-> "", options |-> <<"A", "B">>,
           startTime |-> Day, endTime |-> Day + 1]}
InitArrays(defs) ==
    [titles |-> [i \in 1 .. Len(defs) |-> defs[i].title],
     descriptions |-> [i \in 1 .. Len(defs) |-> defs[i].description],
     optionsList |-> [i \in 1 .. Len(defs) |-> defs[i].options],
     startTimes |-> [i \in 1 .. Len(defs) |-> defs[i].startTime],
     endTimes |-> [i \in 1 .. Len(defs) |-> defs[i].endTime]]
\* equal-length argument arrays, and arrays with one of them an element short
InitBatches ==
    LET good == {InitArrays(defs) : defs \in SeqsUpTo(BallotDefs, MaxBatch)}
        one == InitArrays(<<CHOOSE d \in BallotDefs : d.title = "T" /\ Len(d.options) = 2
                                                     /\ d.startTime < d.endTime>>)
        d == [title |-> "T", description |-> "D", options |-> <<"A", "B">>,
              startTime |-> 2 * Day, endTime |-> 3 * Day]
    IN good \cup {[one EXCEPT !.descriptions = <<>>], [one EXCEPT !.optionsList = <<>>],
                  [one EXCEPT !.startTimes = <<>>], [one EXCEPT !.endTimes = <<>>]}
            \cup {InitArrays([i \in 1 .. n |-> d]) : n \in {BatchInitLimit, BatchInitLimit + 1}}

CastElems ==
    {[voteId |-> v, encrypted |-> c[1], proof |-> c[2]] :
        v \in VoteIds, c \in {<<0, TRUE>>, <<1, FALSE>>}}
CastArrays(elems) ==
    [voteIds |-> [i \in 1 .. Len(elems) |-> elems[i].voteId],
     encryptedChoices |-> [i \in 1 .. Len(elems) |-> elems[i].encrypted],
     inputProofs |-> [i \in 1 .. Len(elems) |-> elems[i].proof]]
CastBatches ==
    LET good == {CastArrays(elems) : elems \in SeqsUpTo(CastElems, MaxBatch)}
        one == CastArrays(<<[voteId |-> 1, encrypted |-> 0, proof |-> TRUE]>>)
    IN good \cup {[one EXCEPT !.encryptedChoices = <<>>],
                  [one EXCEPT !.inputProofs = <<>>]}
            \cup {CastArrays([i \in 1 .. (BatchCastLimit + 1) |->
                                  [voteId |-> 1, encrypted |-> 0, proof |-> TRUE]])}

(* ---- transactions ---- *)
\* a session slot no call has used
NoSession ==
    [kind |-> "none", caller |-> ZeroAddr, voteId |-> 0, pc |-> "idle",
     handles |-> <<>>, userVoteHandle |-> <<>>, publicKey |-> 0,
     startTimestamp |-> 0, authorization |-> <<>>, results |-> {}, userVote |-> -1,
     submitted |-> FALSE, error |-> ""]
\* no wallet connected (address undefined), nothing decrypted
NoWallet ==
    [address |-> ZeroAddr, decryptedResults |-> [v \in VoteIds |-> {}],
     decryptedUserVotes |-> [v \in VoteIds |-> {}]]
\* no call of getParticipationRate
NoCall == [actualVotes |-> 0, expectedParticipants |-> 0, out |-> <<>>]
\* the hook as mounted: empty React state (lines 48-50, 105-106), nothing stored
HookInit ==
    /\ userVotes = [p \in Addr |-> [v \in VoteIds |-> <<>>]]
    /\ decryptedResults = [p \in Addr |-> [v \in VoteIds |-> {}]]
    /\ decryptedUserVotes = [p \in Addr |-> [v \in VoteIds |-> {}]]
    /\ localStorage = [p \in Addr |->
                          [decryptedResults |-> [v \in VoteIds |-> {}],
                           decryptedUserVotes |-> [v \in VoteIds |-> {}]]]
    /\ refreshing = {}
    /\ sessions = [s \in 1 .. MaxSessions |-> NoSession]
    /\ keypairs = 0

Init ==
    /\ HookInit
    /\ wallet = NoWallet
    /\ rateCall = NoCall
    /\ hasGenerateKeypair = TRUE
    /\ now = Day
    /\ owner = 1
    /\ nextVoteId = 1
    /\ votes = [v \in SlotIds |-> NoVote]
    /\ encryptedVoteChoices = [v \in SlotIds |-> <<>>]
    /\ hasVoted = [v \in SlotIds |-> {}]
    /\ voteCount = [v \in SlotIds |-> 0]
    /\ acl = [h \in Handles |-> {}]
    /\ events = EmptyBag

\* the storage a successful transaction leaves stays within the model's bounds
EventsNamed(L, name) == {e \in BagToSet(L.events) : e[1] = name}
CountEvents(L, name) ==
    BagCardinality([e \in EventsNamed(L, name) |-> CopiesIn(e, L.events)])
Fits(L) ==
    /\ L.nextVoteId <= MaxVotes + 1
    /\ BagCardinality(L.events) <= MaxEvents
    /\ CountEvents(L, "VoteDecrypted") <= MaxRequests

\* the outcome of a transaction that ran call result r from storage L: a revert
\* rolls the storage back
Tx(L, r) ==
    [err |-> r.err, ret |-> r.ret, state |-> IF r.err = "" THEN r.state ELSE L]

transferOwnershipTx(L, sender, newOwner) == Tx(L, TransferOwnership(L, sender, newOwner))
createVoteTx(L, sender, t, a) ==
    Tx(L, CreateVote(L, sender, t, a.title, a.description, a.options, a.durationInDays))
castVoteTx(L, sender, t, voteId, c) == Tx(L, CastVote(L, sender, t, voteId, c[1], c[2]))
endVoteTx(L, sender, t, voteId) == Tx(L, EndVote(L, sender, t, voteId))
requestDecryptVoteResultsTx(L, sender, voteId) ==
    Tx(L, RequestDecryptVoteResults(L, sender, voteId, 0))
\* calls of the view functions: they return a value and write nothing
getEncryptedVoteChoicesTx(L, sender, voteId) ==
    Tx(L, Ok(L, GetEncryptedVoteChoices(L, voteId)))
getVoteTx(L, sender, voteId) == Tx(L, Ok(L, GetVote(L, voteId)))
getVoteStatisticsTx(L, sender, t, voteId) == Tx(L, GetVoteStatistics(L, t, voteId))
batchCastVotesTx(L, sender, t, b) ==
    Tx(L, BatchCastVotes(L, sender, t, b.voteIds, b.encryptedChoices, b.inputProofs))
batchInitializeVotesTx(L, sender, b) ==
    Tx(L, BatchInitializeVotes(L, sender, b.titles, b.descriptions, b.optionsList,
                               b.startTimes, b.endTimes))

\* a successful transaction's storage becomes the contract's storage; a reverted
\* one leaves every variable as it is, a stuttering step [Next]_vars allows
Commit(r) ==
    /\ r.err = ""
    /\ Fits(r.state)
    /\ owner' = r.state.owner
    /\ nextVoteId' = r.state.nextVoteId
    /\ votes' = r.state.votes
    /\ encryptedVoteChoices' = r.state.encryptedVoteChoices
    /\ hasVoted' = r.state.hasVoted
    /\ voteCount' = r.state.voteCount
    /\ acl' = r.state.acl
    /\ events' = r.state.events
    /\ UNCHANGED now
    /\ UNCHANGED <<hookVars, wallet, rateCall>>

transferOwnershipBy(sender, newOwner) ==
    Commit(transferOwnershipTx(Ledger, sender, newOwner))
transferOwnership ==
    \E sender \in Addr, newOwner \in Addr \cup {ZeroAddr} :
        transferOwnershipBy(sender, newOwner)

createVoteBy(sender, a) == Commit(createVoteTx(Ledger, sender, now, a))
createVote == \E sender \in Addr, a \in CreateArgs : createVoteBy(sender, a)

castVoteBy(sender, voteId, c) == Commit(castVoteTx(Ledger, sender, now, voteId, c))
castVote == \E sender \in Addr, voteId \in VoteIds, c \in CastInputs :
                castVoteBy(sender, voteId, c)

endVoteBy(sender, voteId) == Commit(endVoteTx(Ledger, sender, now, voteId))
endVote == \E sender \in Addr, voteId \in VoteIds : endVoteBy(sender, voteId)

requestDecryptVoteResultsBy(sender, voteId) ==
    Commit(requestDecryptVoteResultsTx(Ledger, sender, voteId))
requestDecryptVoteResults ==
    \E sender \in Addr, voteId \in VoteIds : requestDecryptVoteResultsBy(sender, voteId)

batchCastVotesBy(sender, b) == Commit(batchCastVotesTx(Ledger, sender, now, b))
batchCastVotes == \E sender \in Addr, b \in CastBatches : batchCastVotesBy(sender, b)

batchInitializeVotesBy(sender, b) == Commit(batchInitializeVotesTx(Ledger, sender, b))
batchInitializeVotes ==
    \E sender \in Addr, b \in InitBatches : batchInitializeVotesBy(sender, b)

\* block.timestamp moves forward between transactions
Tick ==
    /\ \E t \in Moments : t > now /\ now' = t
    /\ UNCHANGED ledgerVars
    /\ UNCHANGED <<hookVars, wallet, rateCall>>

Next ==
    \/ transferOwnership
    \/ createVote
    \/ castVote
    \/ endVote
    \/ requestDecryptVoteResults
    \/ batchCastVotes
    \/ batchInitializeVotes
    \/ Tick

Spec == Init /\ [][Next]_vars

\* the elements of a sequence
Range(s) == {s[i] : i \in 1 .. Len(s)}

(***************************************************************************)
(* The frontend hook useEncryptedVotingSystem: casting through the hook,   *)
(* its record of the caller's own handle, and the decryption sessions of   *)
(* decryptVoteResults and decryptUserVote against the FHEVM gateway.       *)
(***************************************************************************)
CoordVoteIds == 1 .. MaxCoordVotes
SessionIds == 1 .. MaxSessions
DurationDays == 10

(* ---- the FHEVM instance ---- *)
\* the plaintext the gateway holds for a handle
Plain(h) == h[2]
\* generateKeypair() returns a key no earlier call returned; without it the hook
\* uses the zero-filled key, named 0
GenerateKeypair(has, generated) == IF has THEN generated + 1 ELSE 0
CreateEIP712(publicKey, contractAddresses, startTimestamp, durationDays) ==
    [publicKey |-> publicKey, contractAddresses |-> contractAddresses,
     startTimestamp |-> startTimestamp, durationDays |-> durationDays]
\* the signer's signature of a typed message: a function of the signer and the message
SignTypedData(signer, message) == <<signer, message>>

\* (variant: the gateway returns plaintexts only for the caller's own handles)
UserDecrypt_OwnOnly(available, L, handles, publicKey, signature, contractAddresses, userAddress, startTimestamp, durationDays) ==
    LET message == CreateEIP712(publicKey, contractAddresses, startTimestamp, durationDays)
    IN IF ~available THEN [err |-> "gateway unavailable", ret |-> <<>>]
       ELSE IF signature # SignTypedData(userAddress, message)
                \/ \E h \in Range(handles) : ~({userAddress, This} \subseteq L.acl[h])
            THEN [err |-> "not authorized", ret |-> <<>>]
       ELSE [err |-> "",
             ret |-> [h \in {x \in Range(handles) : x[1] = userAddress} |-> Plain(h)]]

\* userDecrypt: the plaintext of every handle, for a caller whose signature is
\* valid and who, like the contract, is allowed on every handle
UserDecrypt(available, L, handles, publicKey, signature, contractAddresses, userAddress, startTimestamp, durationDays) ==
    LET message == CreateEIP712(publicKey, contractAddresses, startTimestamp, durationDays)
    IN IF ~available THEN [err |-> "gateway unavailable", ret |-> <<>>]
       ELSE IF signature # SignTypedData(userAddress, message)
                \/ \E h \in Range(handles) : ~({userAddress, This} \subseteq L.acl[h])
            THEN [err |-> "not authorized", ret |-> <<>>]
       ELSE [err |-> "", ret |-> [h \in Range(handles) |-> Plain(h)]]

(* ---- counting the decrypted choices ---- *)
\* Number(decrypted[handle] || 0)
Lookup(decrypted, handle) ==
    IF handle \in DOMAIN decrypted THEN decrypted[handle] ELSE 0

\* (variant: every option met is counted once, however often it was chosen)
RECURSIVE CountLoop_NoAccumulate(_, _, _, _)
CountLoop_NoAccumulate(handleContractPairs, decrypted, i, voteCounts) ==
    IF i > Len(handleContractPairs) THEN voteCounts
    ELSE LET optionId == Lookup(decrypted, handleContractPairs[i])
         IN CountLoop_NoAccumulate(handleContractPairs, decrypted, i + 1,
                [k \in DOMAIN voteCounts \cup {optionId} |->
                    IF k = optionId THEN 1 ELSE voteCounts[k]])

\* voteCounts[optionId] = (voteCounts[optionId] || 0) + 1, for every handle in order
RECURSIVE CountLoop(_, _, _, _)
CountLoop(handleContractPairs, decrypted, i, voteCounts) ==
    IF i > Len(handleContractPairs) THEN voteCounts
    ELSE LET optionId == Lookup(decrypted, handleContractPairs[i])
             count == IF optionId \in DOMAIN voteCounts THEN voteCounts[optionId] ELSE 0
         IN CountLoop(handleContractPairs, decrypted, i + 1,
                [k \in DOMAIN voteCounts \cup {optionId} |->
                    IF k = optionId THEN count + 1 ELSE voteCounts[k]])

\* Object.entries(voteCounts) lists integer keys in ascending order
RECURSIVE Entries(_, _)
Entries(voteCounts, keys) ==
    IF keys = {} THEN <<>>
    ELSE LET k == CHOOSE x \in keys : \A y \in keys : x <= y
         IN <<<<k, voteCounts[k]>>>> \o Entries(voteCounts, keys \ {k})
ToResults(voteId, voteCounts) ==
    LET entries == Entries(voteCounts, DOMAIN voteCounts)
    IN [i \in 1 .. Len(entries) |->
           [voteId |-> voteId, optionId |-> entries[i][1], count |-> entries[i][2]]]

(* ---- the steps of a decryption session ---- *)
Session(kind, caller, voteId) ==
    [NoSession EXCEPT !.kind = kind, !.caller = caller, !.voteId = voteId]
\* (variant: decryptVoteResults accepts a ballot whose active flag is set)
CheckVoteStatus_AnyTime(L, voteId) == ""
\* decryptVoteResults refuses a ballot whose active flag is set
CheckVoteStatus(L, voteId) ==
    IF GetVote(L, voteId).active
    THEN "Cannot decrypt results while voting is still active" ELSE ""
\* (variant: an empty handle list is processed like any other)
NoVotesCast_Never(handleContractPairs) == FALSE
NoVotesCast(handleContractPairs) == Len(handleContractPairs) = 0

\* the key pair, the contract list and the start timestamp of the session's
\* authorization, made right before the signature is asked for
Prepared(sess, has, generated, t) ==
    [sess EXCEPT !.pc = "sign", !.publicKey = GenerateKeypair(has, generated),
                 !.startTimestamp = t]
Authorization(sess) ==
    [publicKey |-> sess.publicKey, contractAddresses |-> <<This>>,
     userAddress |-> sess.caller, startTimestamp |-> sess.startTimestamp,
     durationDays |-> DurationDays,
     signature |-> SignTypedData(sess.caller,
                       CreateEIP712(sess.publicKey, <<This>>, sess.startTimestamp,
                                    DurationDays))]

\* (variant: a failed userDecrypt is treated as one that returned nothing)
ProcessDecrypted_SwallowsError(sess, d) ==
    LET results == ToResults(sess.voteId, CountLoop(sess.handles, d.ret, 1, <<>>))
    IN [sess EXCEPT !.pc = "done", !.error = d.err, !.results = {results},
                    !.userVote = IF sess.kind # "user" THEN -1
                                 ELSE IF sess.userVoteHandle # <<>>
                                      THEN Lookup(d.ret, sess.userVoteHandle[1])
                                      ELSE 0]

\* what the session makes of userDecrypt's outcome d: an error is rethrown, a
\* mapping is counted and, in decryptUserVote, read at the caller's handle
ProcessDecrypted(sess, d) ==
    IF d.err # "" THEN [sess EXCEPT !.pc = "failed", !.error = d.err]
    ELSE LET results == ToResults(sess.voteId, CountLoop(sess.handles, d.ret, 1, <<>>))
         IN [sess EXCEPT !.pc = "done", !.results = {results},
                         !.userVote = IF sess.kind # "user" THEN -1
                                      ELSE IF sess.userVoteHandle # <<>>
                                           THEN Lookup(d.ret, sess.userVoteHandle[1])
                                           ELSE 0]

(* ---- the hook's operations as steps ---- *)
LedgerBecomes(L) ==
    /\ owner' = L.owner
    /\ nextVoteId' = L.nextVoteId
    /\ votes' = L.votes
    /\ encryptedVoteChoices' = L.encryptedVoteChoices
    /\ hasVoted' = L.hasVoted
    /\ voteCount' = L.voteCount
    /\ acl' = L.acl
    /\ events' = L.events
sessionVars == <<sessions, keypairs>>
plainVars == <<decryptedResults, decryptedUserVotes, localStorage>>

\* the ballot is closed by a call of the contract's endVote
ballotEndedBy(sender, voteId) ==
    LET r == endVoteTx(Ledger, sender, now, voteId)
    IN /\ r.err = ""
       /\ LedgerBecomes(r.state)
       /\ UNCHANGED now
       /\ UNCHANGED <<hookVars, wallet, rateCall>>
ballotEnded == \E sender \in Addr, voteId \in CoordVoteIds : ballotEndedBy(sender, voteId)

\* castVote of the hook up to its call of refreshVote: the transaction is mined
\* and the handle of the caller's own input is recorded
hookCastVoteBy(p, voteId, optionId) ==
    LET r == castVoteTx(Ledger, p, now, voteId, <<optionId, TRUE>>)
    IN /\ r.err = ""
       /\ LedgerBecomes(r.state)
       /\ userVotes' = [userVotes EXCEPT ![p][voteId] = <<FromExternal(p, optionId)>>]
       /\ refreshing' = refreshing \cup {<<p, voteId>>}
       /\ UNCHANGED <<now, wallet, rateCall, hasGenerateKeypair>>
       /\ UNCHANGED sessionVars
       /\ UNCHANGED plainVars
\* (address 1 casts option 0; every other address casts any option)
hookCastVote ==
    \E p \in Addr, voteId \in CoordVoteIds, optionId \in Choices :
        (p = 1 => optionId = 0) /\ hookCastVoteBy(p, voteId, optionId)

\* the handle refreshVote and loadVotes record for an address that has voted: the
\* first of the ballot's list, or the placeholder "0x1" if the list is empty
Placeholder == <<ZeroAddr, 1>>
FirstHandle(L, voteId) ==
    LET encryptedVotes == GetEncryptedVoteChoices(L, voteId)
    IN IF Len(encryptedVotes) > 0 THEN <<encryptedVotes[1]>> ELSE <<Placeholder>>
\* refreshVote, called at the end of castVote
refreshVoteBy(p, voteId) ==
    /\ <<p, voteId>> \in refreshing
    /\ refreshing' = refreshing \ {<<p, voteId>>}
    /\ userVotes' = [userVotes EXCEPT ![p][voteId] =
                        IF HasVotedInVote(Ledger, voteId, p)
                        THEN FirstHandle(Ledger, voteId) ELSE <<>>]
    /\ UNCHANGED <<now, wallet, rateCall, hasGenerateKeypair>>
    /\ UNCHANGED ledgerVars
    /\ UNCHANGED sessionVars
    /\ UNCHANGED plainVars
refreshVote == \E p \in Addr, voteId \in CoordVoteIds : refreshVoteBy(p, voteId)

\* loadVotes: for every ballot the address has voted on, the recorded handle
\* becomes the first of the ballot's list
loadVotesBy(p) ==
    /\ userVotes' = [userVotes EXCEPT ![p] =
                        [v \in VoteIds |->
                            IF v \in 1 .. (GetNextVoteId(Ledger) - 1)
                               /\ HasVotedInVote(Ledger, v, p)
                            THEN FirstHandle(Ledger, v) ELSE userVotes[p][v]]]
    /\ UNCHANGED <<now, wallet, rateCall, hasGenerateKeypair, refreshing>>
    /\ UNCHANGED ledgerVars
    /\ UNCHANGED sessionVars
    /\ UNCHANGED plainVars
loadVotes == \E p \in Addr : loadVotesBy(p)

\* sessions take the slots in order, each slot once
FreeSlot(s) ==
    /\ sessions[s].kind = "none"
    /\ \A t \in 1 .. (s - 1) : sessions[t].kind # "none"

\* decryptVoteResults is called: it reads the ballot and throws if it is active
decryptVoteResultsCall(s, p, voteId) ==
    /\ FreeSlot(s)
    /\ CheckVoteStatus(Ledger, voteId) = ""
    /\ sessions' = [sessions EXCEPT ![s] =
                       [Session("results", p, voteId) EXCEPT !.pc = "request"]]
    /\ UNCHANGED <<now, wallet, rateCall, hasGenerateKeypair, keypairs, userVotes, refreshing>>
    /\ UNCHANGED ledgerVars
    /\ UNCHANGED plainVars
decryptVoteResults ==
    \E s \in SessionIds, p \in Addr, voteId \in CoordVoteIds :
        decryptVoteResultsCall(s, p, voteId)

\* decryptUserVote is called: it throws unless the caller has voted; the handle
\* it will read is the one its closure holds
decryptUserVoteCall(s, p, voteId) ==
    /\ FreeSlot(s)
    /\ HasVotedInVote(Ledger, voteId, p)
    /\ sessions' = [sessions EXCEPT ![s] =
                       [Session("user", p, voteId) EXCEPT
                           !.pc = "read", !.userVoteHandle = userVotes[p][voteId]]]
    /\ UNCHANGED <<now, wallet, rateCall, hasGenerateKeypair, keypairs, userVotes, refreshing>>
    /\ UNCHANGED ledgerVars
    /\ UNCHANGED plainVars
decryptUserVote ==
    \E s \in SessionIds, p \in Addr, voteId \in CoordVoteIds :
        decryptUserVoteCall(s, p, voteId)

\* what the hook holds and persists once session sess has ended
Stored(sess) ==
    /\ decryptedResults' =
           IF sess.pc = "done"
           THEN [decryptedResults EXCEPT ![sess.caller][sess.voteId] = sess.results]
           ELSE decryptedResults
    /\ decryptedUserVotes' =
           IF sess.pc = "done" /\ sess.kind = "user" /\ sess.userVoteHandle # <<>>
           THEN [decryptedUserVotes EXCEPT ![sess.caller][sess.voteId] = {sess.userVote}]
           ELSE decryptedUserVotes
    /\ localStorage' =
           IF sess.pc = "done"
           THEN [localStorage EXCEPT ![sess.caller] =
                    [decryptedResults |-> decryptedResults'[sess.caller],
                     decryptedUserVotes |->
                        IF sess.kind = "user" /\ sess.userVoteHandle # <<>>
                        THEN decryptedUserVotes'[sess.caller]
                        ELSE localStorage[sess.caller].decryptedUserVotes]]
           ELSE localStorage

\* the requestDecryptVoteResults transaction of the session is mined
requestStep(s) ==
    LET sess == sessions[s]
        r == requestDecryptVoteResultsTx(Ledger, sess.caller, sess.voteId)
    IN /\ sess.pc = "request"
       /\ r.err = ""
       /\ LedgerBecomes(r.state)
       /\ sessions' = [sessions EXCEPT ![s] =
                          IF sess.kind = "results" THEN [sess EXCEPT !.pc = "read"]
                          ELSE Prepared(sess, hasGenerateKeypair, keypairs, now)]
       /\ keypairs' = IF sess.kind = "user" /\ hasGenerateKeypair
                      THEN keypairs + 1 ELSE keypairs
       /\ UNCHANGED <<now, wallet, rateCall, hasGenerateKeypair, userVotes, refreshing>>
       /\ UNCHANGED plainVars
sessionRequests == \E s \in SessionIds : requestStep(s)

\* the session reads the ballot's handle list
readStep(s) ==
    LET sess == sessions[s]
        read == [sess EXCEPT !.handles = GetEncryptedVoteChoices(Ledger, sess.voteId)]
        next == IF sess.kind = "results"
                THEN IF NoVotesCast(read.handles)
                     THEN [read EXCEPT !.pc = "done", !.results = {<<>>}]
                     ELSE Prepared(read, hasGenerateKeypair, keypairs, now)
                ELSE IF Len(read.handles) = 0
                     THEN [read EXCEPT !.pc = "failed",
                                       !.error = "No encrypted votes found for this vote"]
                     ELSE [read EXCEPT !.pc = "request"]
    IN /\ sess.pc = "read"
       /\ sessions' = [sessions EXCEPT ![s] = next]
       /\ keypairs' = IF next.pc = "sign" /\ hasGenerateKeypair
                      THEN keypairs + 1 ELSE keypairs
       /\ Stored(next)
       /\ UNCHANGED <<now, wallet, rateCall, hasGenerateKeypair, userVotes, refreshing>>
       /\ UNCHANGED ledgerVars
sessionReads == \E s \in SessionIds : readStep(s)

\* the wallet signs the typed message, or the user rejects the request
signStep(s, approved) ==
    LET sess == sessions[s]
    IN /\ sess.pc = "sign"
       /\ sessions' = [sessions EXCEPT ![s] =
                          IF approved
                          THEN [sess EXCEPT !.pc = "decrypt",
                                            !.authorization = <<Authorization(sess)>>]
                          ELSE [sess EXCEPT !.pc = "failed",
                                            !.error = "user rejected the request"]]
       /\ UNCHANGED <<now, wallet, rateCall, hasGenerateKeypair, keypairs, userVotes, refreshing>>
       /\ UNCHANGED ledgerVars
       /\ UNCHANGED plainVars
sessionSigns == \E s \in SessionIds, approved \in BOOLEAN : signStep(s, approved)

\* userDecrypt is called with the session's authorization and its outcome processed
decryptStep(s, available) ==
    LET sess == sessions[s]
        a == sess.authorization[1]
        d == UserDecrypt(available, Ledger, sess.handles, a.publicKey, a.signature,
                         a.contractAddresses, a.userAddress, a.startTimestamp,
                         a.durationDays)
        next == ProcessDecrypted([sess EXCEPT !.submitted = TRUE], d)
    IN /\ sess.pc = "decrypt"
       /\ sessions' = [sessions EXCEPT ![s] = next]
       /\ Stored(next)
       /\ UNCHANGED <<now, wallet, rateCall, hasGenerateKeypair, keypairs, userVotes, refreshing>>
       /\ UNCHANGED ledgerVars
sessionDecrypts == \E s \in SessionIds, available \in BOOLEAN : decryptStep(s, available)

\* a day passes on the clock
dayPasses ==
    /\ now < Day * (MaxCoordDays + 1)
    /\ now' = now + Day
    /\ UNCHANGED ledgerVars
    /\ UNCHANGED <<hookVars, wallet, rateCall>>

\* the ledger holds one ballot, created by address 1 at the first moment; the
\* hook is mounted with nothing stored, on an FHEVM instance that does or does
\* not offer generateKeypair
CreatedLedger ==
    createVoteTx([owner |-> 1, nextVoteId |-> 1, votes |-> [v \in SlotIds |-> NoVote],
                  encryptedVoteChoices |-> [v \in SlotIds |-> <<>>],
                  hasVoted |-> [v \in SlotIds |-> {}],
                  voteCount |-> [v \in SlotIds |-> 0],
                  acl |-> [h \in Handles |-> {}], events |-> EmptyBag],
                 1, Day, ValidCreate).state
CoordInit ==
    /\ HookInit
    /\ wallet = NoWallet
    /\ rateCall = NoCall
    /\ hasGenerateKeypair \in BOOLEAN
    /\ now = Day
    /\ owner = CreatedLedger.owner
    /\ nextVoteId = CreatedLedger.nextVoteId
    /\ votes = CreatedLedger.votes
    /\ encryptedVoteChoices = CreatedLedger.encryptedVoteChoices
    /\ hasVoted = CreatedLedger.hasVoted
    /\ voteCount = CreatedLedger.voteCount
    /\ acl = CreatedLedger.acl
    /\ events = CreatedLedger.events

CoordNext ==
    \/ hookCastVote
    \/ refreshVote
    \/ loadVotes
    \/ ballotEnded
    \/ decryptVoteResults
    \/ decryptUserVote
    \/ sessionRequests
    \/ sessionReads
    \/ sessionSigns
    \/ sessionDecrypts
    \/ dayPasses

\* the hook's operations and the steps of its sessions, interleaved in any order
CoordSpec == CoordInit /\ [][CoordNext]_vars

\* a principal calls the contract's batchCastVotes directly, not through the hook
CoordBatches ==
    {CastArrays(elems) : elems \in SeqsUpTo({e \in CastElems : e.proof}, MaxBatch)}
ledgerBatchCastBy(sender, b) ==
    LET r == batchCastVotesTx(Ledger, sender, now, b)
    IN /\ r.err = ""
       /\ LedgerBecomes(r.state)
       /\ UNCHANGED now
       /\ UNCHANGED <<hookVars, wallet, rateCall>>
\* (address 1 casts through the hook; every other address casts either way)
ledgerBatchCast ==
    \E sender \in Addr \ {1}, b \in CoordBatches : ledgerBatchCastBy(sender, b)

\* castVote of the hook with an option index of the caller's choosing
hookCastFree ==
    \E p \in Addr, voteId \in CoordVoteIds, optionId \in FreeChoices :
        hookCastVoteBy(p, voteId, optionId)

\* casts of any value, the closing of the ballot and the results workflow
FreeCastNext ==
    \/ hookCastFree
    \/ refreshVote
    \/ ballotEnded
    \/ decryptVoteResults
    \/ sessionRequests
    \/ sessionReads
    \/ sessionSigns
    \/ sessionDecrypts
    \/ dayPasses
FreeCastSpec == CoordInit /\ [][FreeCastNext]_vars

(* ---- the mounted hook and its wallet address ---- *)
\* Object.keys(stored).length > 0
HasKeys(stored) == \E v \in DOMAIN stored : stored[v] # {}
\* the effect that runs when address or contractAddress change (lines 954-972)
MountEffect(w, storage, address) ==
    IF address # ZeroAddr
    THEN LET storedResults == storage[address].decryptedResults
             storedUserVotes == storage[address].decryptedUserVotes
         IN [address |-> address,
             decryptedResults |->
                 IF HasKeys(storedResults) THEN storedResults ELSE w.decryptedResults,
             decryptedUserVotes |->
                 IF HasKeys(storedUserVotes) THEN storedUserVotes
                 ELSE w.decryptedUserVotes]
    ELSE [NoWallet EXCEPT !.address = address]
walletFrame ==
    <<now, ledgerVars, userVotes, decryptedResults, decryptedUserVotes, refreshing,
      sessions, hasGenerateKeypair, keypairs, rateCall>>
\* the wallet connects, switches to another account or disconnects
addressChanges(address) ==
    /\ address # wallet.address
    /\ wallet' = MountEffect(wallet, localStorage, address)
    /\ UNCHANGED localStorage
    /\ UNCHANGED walletFrame
walletChanges == \E address \in Addr \cup {ZeroAddr} : addressChanges(address)
\* the tallies and the own choices a decryption of ballot voteId can end with
WalletTallies(voteId) == {<<>>, ToResults(voteId, [k \in {0} |-> 1])}
\* decryptVoteResults ends: setDecryptedResults and saveDecryptedResultsToStorage
storesResults(voteId, results) ==
    LET updated == [wallet.decryptedResults EXCEPT ![voteId] = {results}]
    IN /\ wallet.address # ZeroAddr
       /\ wallet' = [wallet EXCEPT !.decryptedResults = updated]
       /\ localStorage' = [localStorage EXCEPT
                              ![wallet.address].decryptedResults = updated]
       /\ UNCHANGED walletFrame
walletDecryptsResults ==
    \E voteId \in CoordVoteIds :
        \E results \in WalletTallies(voteId) : storesResults(voteId, results)
\* decryptUserVote ends: the tally and the caller's own choice are set and saved
storesUserVote(voteId, results, decryptedVote) ==
    LET updated == [wallet.decryptedResults EXCEPT ![voteId] = {results}]
        updatedVotes == [wallet.decryptedUserVotes EXCEPT ![voteId] = {decryptedVote}]
    IN /\ wallet.address # ZeroAddr
       /\ wallet' = [wallet EXCEPT !.decryptedResults = updated,
                                   !.decryptedUserVotes = updatedVotes]
       /\ localStorage' = [localStorage EXCEPT
                              ![wallet.address].decryptedResults = updated,
                              ![wallet.address].decryptedUserVotes = updatedVotes]
       /\ UNCHANGED walletFrame
walletDecryptsUserVote ==
    \E voteId \in CoordVoteIds :
        storesUserVote(voteId, ToResults(voteId, [k \in {0} |-> 1]), 0)

WalletNext == walletChanges \/ walletDecryptsResults \/ walletDecryptsUserVote
\* one mounted hook: the wallet address changes and decryptions end
WalletSpec == CoordInit /\ [][WalletNext]_vars

(* ---- calls of getParticipationRate ---- *)
\* cast counts and expected numbers of participants
RateCounts == {0, 1, 2, 3, 99, 100, 21474836, 42949673, 2147483647}
RateExpected == {0, 1, 2, 3, 100, 200, 21474836}
rateFrame == <<now, ledgerVars, hookVars, wallet>>
RateInit ==
    /\ HookInit
    /\ wallet = NoWallet
    /\ hasGenerateKeypair = TRUE
    /\ now = Day
    /\ owner = CreatedLedger.owner
    /\ nextVoteId = CreatedLedger.nextVoteId
    /\ votes = CreatedLedger.votes
    /\ encryptedVoteChoices = CreatedLedger.encryptedVoteChoices
    /\ hasVoted = CreatedLedger.hasVoted
    /\ voteCount = CreatedLedger.voteCount
    /\ acl = CreatedLedger.acl
    /\ events = CreatedLedger.events
    /\ rateCall \in {[NoCall EXCEPT !.actualVotes = c, !.expectedParticipants = e] :
                         c \in RateCounts, e \in RateExpected}
\* getParticipationRate runs on the count and the argument of the call
getParticipationRate ==
    /\ rateCall.out = <<>>
    /\ rateCall' = [rateCall EXCEPT
                       !.out = <<RateOf(rateCall.actualVotes,
                                        rateCall.expectedParticipants)>>]
    /\ UNCHANGED rateFrame
RateSpec == RateInit /\ [][getParticipationRate]_vars

\* the hook's operations and sessions, interleaved with direct batch casts
GrantSpec == CoordInit /\ [][CoordNext \/ ledgerBatchCast]_vars

(***************************************************************************)
(* Properties                                                              *)
(***************************************************************************)
Exists(v) == votes[v].creator # ZeroAddr
InWindow(v) == votes[v].startTime <= now /\ now <= votes[v].endTime
Emitted(e) == CopiesIn(e, events)

\* C1: for every vote id, the encrypted-choice list returned by
\* getEncryptedVoteChoices is as long as the count returned by getVoteCount.
C1_ChoicesMatchCount ==
    \A v \in SlotIds :
        Len(GetEncryptedVoteChoices(Ledger, v)) = GetVoteCount(Ledger, v)

\* a ballot with two casts on it
C1_Witness ==
    \E v \in VoteIds :
        GetVoteCount(Ledger, v) = 2 /\ Len(GetEncryptedVoteChoices(Ledger, v)) = 2

\* the stored handles of voter a on ballot v
HandlesOf(v, a) ==
    {i \in 1 .. Len(encryptedVoteChoices[v]) : encryptedVoteChoices[v][i][1] = a}

\* C2: for every ballot and identity, at most one cast by that identity on that
\* ballot has succeeded (one VoteCast event, one stored handle), whether cast by
\* castVote or by batchCastVotes.
C2_OneCastPerVoter ==
    \A v \in SlotIds, a \in Addr :
        /\ Emitted(<<"VoteCast", v, a>>) <= 1
        /\ Cardinality(HandlesOf(v, a)) <= 1
        /\ HasVotedInVote(Ledger, v, a) <=> Emitted(<<"VoteCast", v, a>>) = 1

\* a voter has cast on a ballot that is still open, so that a second cast by the
\* same voter passes every other check
C2_Witness ==
    \E v \in VoteIds, a \in Addr :
        /\ Emitted(<<"VoteCast", v, a>>) = 1
        /\ votes[v].active /\ InWindow(v)
        /\ \E c \in CastInputs : castVoteTx(Ledger, a, now, v, c).err # ""

\* the revert reasons of castVote
AlreadyVoted == "Already voted in this vote"
NotVotingPeriod ==
    {"Vote does not exist or is not active", "Voting has not started yet",
     "Voting has ended"}

\* C3 as stated: a castVote by an identity that has a cast record on the ballot
\* fails with AlreadyVoted and changes nothing.
C3_Original ==
    \A v \in VoteIds, a \in Addr, c \in CastInputs :
        HasVotedInVote(Ledger, v, a) =>
            LET r == castVoteTx(Ledger, a, now, v, c)
            IN r.err = AlreadyVoted /\ r.state = Ledger

\* C3 (amended): a castVote by an identity that has a cast record on the ballot
\* fails and changes nothing; it fails with AlreadyVoted when the ballot is still
\* active and now is within its window, and with the not-active or time-window
\* reason otherwise.
C3_SecondCastFails ==
    \A v \in VoteIds, a \in Addr, c \in CastInputs :
        HasVotedInVote(Ledger, v, a) =>
            LET r == castVoteTx(Ledger, a, now, v, c)
            IN /\ r.err # ""
               /\ r.state = Ledger
               /\ CastVote(Ledger, a, now, v, c[1], c[2]).state = Ledger
               /\ IF votes[v].active /\ InWindow(v)
                  THEN r.err = AlreadyVoted
                  ELSE r.err \in NotVotingPeriod

\* a voter who cast on an open ballot is refused with AlreadyVoted
C3_Witness ==
    \E v \in VoteIds, a \in Addr, c \in CastInputs :
        /\ HasVotedInVote(Ledger, v, a)
        /\ GetVoteCount(Ledger, v) >= 1
        /\ castVoteTx(Ledger, a, now, v, c).err = AlreadyVoted

\* the ballot accepts casts now
Open(v) == Exists(v) /\ votes[v].active /\ InWindow(v)
Closed(v) == Exists(v) /\ ~votes[v].active

\* C4: a cast (castVote, or an element of batchCastVotes) succeeds only on a ballot
\* that exists, is active and has startTime <= now <= endTime; a cast on any
\* other ballot fails and changes nothing.
C4_CastOnlyWhenOpen ==
    /\ \A a \in Addr, v \in VoteIds, c \in CastInputs :
           LET r == castVoteTx(Ledger, a, now, v, c)
           IN /\ r.err = "" => Open(v)
              /\ ~Open(v) => r.err # "" /\ r.state = Ledger
    /\ \A a \in Addr, b \in CastBatches :
           LET r == batchCastVotesTx(Ledger, a, now, b)
               ids == b.voteIds
           IN /\ r.err = "" => \A i \in 1 .. Len(ids) : Open(ids[i])
              /\ (\E i \in 1 .. Len(ids) : ~Open(ids[i]))
                     => r.err # "" /\ r.state = Ledger

\* a ballot that took a cast while open and is still active after its end time
C4_Witness ==
    \E v \in VoteIds :
        /\ GetVoteCount(Ledger, v) >= 1
        /\ votes[v].active /\ now > votes[v].endTime
        /\ \E a \in Addr \ hasVoted[v] :
               castVoteTx(Ledger, a, now, v, <<0, TRUE>>).err = "Voting has ended"

\* C5: the active flag of a created ballot changes only from true to false, only
\* by an endVote step taken when now >= endTime; nothing sets it back to true.
C5_ActiveOnlyCloses ==
    [][\A v \in SlotIds :
          (Exists(v) /\ votes'[v].active # votes[v].active) =>
              /\ votes[v].active /\ ~votes'[v].active
              /\ now >= votes[v].endTime
              /\ \E a \in Addr : endVoteBy(a, v)
              /\ Emitted(<<"VotingEnded", v, ZeroAddr>>) = 0]_vars

\* a closed ballot, and a ballot created after it was closed
C5_Witness ==
    \E v, w \in VoteIds :
        /\ v < w /\ Closed(v) /\ Exists(w) /\ votes[w].active
        /\ votes[w].startTime >= votes[v].endTime
        /\ Emitted(<<"VotingEnded", v, ZeroAddr>>) = 1

\* C6 (state part): every cast on a closed ballot is rejected, for voters who have
\* voted and for those who have not
C6_CastsRejected ==
    \A v \in VoteIds :
        Closed(v) =>
            /\ \A a \in Addr, c \in CastInputs :
                   castVoteTx(Ledger, a, now, v, c).err # ""
            /\ \A a \in Addr, b \in CastBatches :
                   (\E i \in 1 .. Len(b.voteIds) : b.voteIds[i] = v)
                       => batchCastVotesTx(Ledger, a, now, b).err # ""
\* C6 (step part): no step changes the cast count or the encrypted-choice list of a
\* closed ballot, or reopens it
C6_ClosedFrozen ==
    \A v \in SlotIds :
        Closed(v) =>
            /\ ~votes'[v].active
            /\ voteCount'[v] = voteCount[v]
            /\ encryptedVoteChoices'[v] = encryptedVoteChoices[v]
            /\ hasVoted'[v] = hasVoted[v]

\* C6: after a ballot has been closed no cast on it succeeds: its cast count and
\* encrypted-choice list keep their values from the moment of closing, and a cast
\* by an identity that has not voted is rejected.
C6_NoCastAfterClose == [](C6_CastsRejected) /\ [][C6_ClosedFrozen]_vars

\* a closed ballot with a cast on it and an identity that has not voted on it,
\* at the very end time (where the time window alone would still admit a cast)
C6_Witness ==
    \E v \in VoteIds :
        /\ Closed(v) /\ GetVoteCount(Ledger, v) >= 1
        /\ now = votes[v].endTime
        /\ \E a \in Addr : ~HasVotedInVote(Ledger, v, a)

AlreadyClosed == "Vote is already ended"

\* C7: endVote on a closed ballot fails with AlreadyClosed, emits no VotingEnded
\* and leaves the active flag false.
C7_SecondCloseFails ==
    \A v \in VoteIds, a \in Addr :
        Closed(v) =>
            LET r == endVoteTx(Ledger, a, now, v)
            IN /\ r.err = AlreadyClosed
               /\ EndVote(Ledger, a, now, v).state = Ledger
               /\ r.state.events = events
               /\ ~r.state.votes[v].active
               /\ Emitted(<<"VotingEnded", v, ZeroAddr>>) = 1

\* a closed ballot, at a time at which the end-time check of endVote passes
C7_Witness ==
    \E v \in VoteIds, a \in Addr :
        /\ Closed(v) /\ now >= votes[v].endTime
        /\ endVoteTx(Ledger, a, now, v).err = AlreadyClosed

\* C8: endVote succeeds exactly when the ballot is active and now >= endTime,
\* whoever calls it.
C8_ClosePermissionless ==
    \A v \in VoteIds, a \in Addr :
        (endVoteTx(Ledger, a, now, v).err = "")
            <=> (votes[v].active /\ now >= votes[v].endTime)

\* a ballot was closed, and another that is due can be closed by an identity that
\* is neither its creator nor the contract owner
C8_Witness ==
    \E v, w \in VoteIds, a \in Addr :
        /\ Closed(v) /\ votes[w].active /\ now >= votes[w].endTime
        /\ a # votes[w].creator /\ a # owner
        /\ endVoteTx(Ledger, a, now, w).err = ""

InvalidInput ==
    {"Title cannot be empty", "Description cannot be empty",
     "Must have at least 2 options", "Duration must be between 1-365 days"}
InvalidCreate(a) ==
    \/ a.durationInDays < 1 \/ a.durationInDays > 365
    \/ a.title = "" \/ a.description = "" \/ Len(a.options) < 2

\* C9: createVote with a duration outside [1,365], an empty title, an empty
\* description or fewer than 2 options fails with InvalidInput, stores no ballot
\* and leaves the next-vote-id counter as it was.
C9_InvalidCreateRejected ==
    \A s \in Addr, a \in CreateArgs :
        InvalidCreate(a) =>
            LET r == createVoteTx(Ledger, s, now, a)
                raw == CreateVote(Ledger, s, now, a.title, a.description, a.options,
                                  a.durationInDays)
            IN /\ r.err \in InvalidInput
               /\ raw.state = Ledger
               /\ r.state.votes = votes
               /\ r.state.nextVoteId = nextVoteId
               /\ r.state.events = events

\* a ledger that holds a ballot, in which a 366-day and a 0-day creation are refused
C9_Witness ==
    /\ nextVoteId = 2 /\ Exists(1)
    /\ \A d \in {0, 366} :
           createVoteTx(Ledger, owner, now, [ValidCreate EXCEPT !.durationInDays = d]).err
               = "Duration must be between 1-365 days"

\* the VoteCreated events emitted for vote id v
CreatedEvents(v) == {e \in BagToSet(events) : e[1] = "VoteCreated" /\ e[2] = v}

\* C10: a successful createVote returns the value of the next-vote-id counter (1
\* for the first ballot), increments the counter by one and stores a ballot with
\* startTime = now, endTime = now + durationDays*86400, active = true and
\* creator = caller; every id was handed out once, in increasing order.
C10_CreateStoresBallot ==
    /\ \A s \in Addr, a \in CreateArgs :
           LET r == createVoteTx(Ledger, s, now, a)
           IN /\ ~InvalidCreate(a) <=> r.err = ""
              /\ r.err = "" =>
                     /\ r.ret = nextVoteId
                     /\ r.state.nextVoteId = nextVoteId + 1
                     /\ r.state.votes[r.ret] =
                            [title |-> a.title, description |-> a.description,
                             options |-> a.options, startTime |-> now,
                             endTime |-> now + a.durationInDays * 86400,
                             active |-> TRUE, creator |-> s]
                     /\ \A v \in SlotIds \ {r.ret} : r.state.votes[v] = votes[v]
    /\ nextVoteId >= 1
    /\ events = EmptyBag => nextVoteId = 1
    /\ \A v \in SlotIds :
           /\ Cardinality(CreatedEvents(v)) = IF 1 <= v /\ v < nextVoteId THEN 1 ELSE 0
           /\ \A e \in CreatedEvents(v) : Emitted(e) = 1 /\ e[3] = votes[v].creator

\* two ballots created by createVote calls of different callers, the second for
\* 365 days
C10_Witness ==
    /\ nextVoteId = 3
    /\ votes[1].creator # votes[2].creator
    /\ votes[1].endTime = votes[1].startTime + 86400
    /\ votes[2].endTime = votes[2].startTime + 365 * 86400
    /\ votes[2].startTime > votes[1].startTime

\* the fields of a ballot that are fixed at creation
Fixed(b) == <<b.title, b.description, b.options, b.startTime, b.endTime, b.creator>>

\* C11: once a ballot is created, its title, description, option list, start time,
\* end time and creator are the same after every step, whatever the operation.
C11_BallotImmutable ==
    [][\A v \in SlotIds : Exists(v) => Fixed(votes'[v]) = Fixed(votes[v])]_vars

\* a ballot that took a cast and was closed, with a second ballot created and the
\* ownership transferred since the first was created
C11_Witness ==
    /\ Closed(1) /\ GetVoteCount(Ledger, 1) = 1
    /\ Exists(2)
    /\ votes[1].creator = 1 /\ owner = 2
    /\ votes[1].endTime = votes[1].startTime + Day

\* element i of cast batch b, sent by a, fails a precondition of a cast: the
\* ballot is missing or not active, now is outside its window, the proof is
\* rejected, or a has voted on it (before the call or by an earlier element)
CastElemFails(a, b, i) ==
    LET v == b.voteIds[i]
    IN \/ ~Open(v)
       \/ a \in hasVoted[v]
       \/ \E j \in 1 .. (i - 1) : b.voteIds[j] = v
       \/ ProofRejected(b.encryptedChoices[i], b.inputProofs[i])
EqualLength(b) ==
    Len(b.voteIds) = Len(b.encryptedChoices) /\ Len(b.voteIds) = Len(b.inputProofs)

\* C12: a batchCastVotes call with an element that fails its preconditions fails as
\* a whole: cast counts, encrypted-choice lists, cast records and handle
\* permissions are those of before the call, also for the elements before the
\* failing one, and no VoteCast is emitted.
C12_BatchCastAtomic ==
    \A a \in Addr, b \in CastBatches :
        (EqualLength(b) /\ \E i \in 1 .. Len(b.voteIds) : CastElemFails(a, b, i)) =>
            LET r == batchCastVotesTx(Ledger, a, now, b)
            IN /\ r.err # ""
               /\ r.state.voteCount = voteCount
               /\ r.state.encryptedVoteChoices = encryptedVoteChoices
               /\ r.state.hasVoted = hasVoted
               /\ r.state.acl = acl
               /\ r.state.events = events

\* a batch whose first element is applied by the loop and whose second element
\* fails, on a ballot that already holds a cast made by a batch of two
C12_Witness ==
    \E a \in Addr, b \in CastBatches :
        /\ Len(b.voteIds) = 2 /\ EqualLength(b)
        /\ ~CastElemFails(a, b, 1) /\ CastElemFails(a, b, 2)
        /\ LET raw == BatchCastVotes(Ledger, a, now, b.voteIds, b.encryptedChoices,
                                     b.inputProofs)
           IN raw.err # "" /\ raw.state.voteCount # voteCount
        /\ GetVoteCount(Ledger, 1) = 1 /\ GetVoteCount(Ledger, 2) = 1
        /\ hasVoted[1] = hasVoted[2]

\* the constraints createVote puts on a ballot, on a ballot given by its period
BallotInvalid(title, description, options, startTime, endTime) ==
    \/ title = "" \/ description = "" \/ Len(options) < 2
    \/ endTime - startTime < 86400 \/ endTime - startTime > 365 * 86400
InitEqualLength(b) ==
    /\ Len(b.titles) = Len(b.descriptions) /\ Len(b.titles) = Len(b.optionsList)
    /\ Len(b.titles) = Len(b.startTimes) /\ Len(b.titles) = Len(b.endTimes)
InitElemInvalid(b, i) ==
    BallotInvalid(b.titles[i], b.descriptions[i], b.optionsList[i], b.startTimes[i],
                  b.endTimes[i])
\* the checks batchInitializeVotes makes on element i
InitElemRejected(b, i) ==
    \/ Len(b.optionsList[i]) < 2 \/ Len(b.optionsList[i]) > 10
    \/ b.startTimes[i] >= b.endTimes[i]

\* C13: a batchInitializeVotes call with an invalid element stores no ballot of
\* the batch, leaves the next-vote-id counter as it was and emits no VoteCreated,
\* also for the valid elements before the invalid one.
C13_Original ==
    \A a \in Addr, b \in InitBatches :
        (InitEqualLength(b) /\ \E i \in 1 .. Len(b.titles) : InitElemInvalid(b, i)) =>
            LET r == batchInitializeVotesTx(Ledger, a, b)
            IN /\ r.err # ""
               /\ r.state.votes = votes
               /\ r.state.nextVoteId = nextVoteId
               /\ r.state.events = events

C15_Original ==
    /\ \A v \in SlotIds :
           Exists(v) => ~BallotInvalid(votes[v].title, votes[v].description,
                                       votes[v].options, votes[v].startTime,
                                       votes[v].endTime)
    /\ \A a \in Addr, b \in InitBatches :
           (InitEqualLength(b) /\ \E i \in 1 .. Len(b.titles) : InitElemInvalid(b, i))
               => batchInitializeVotesTx(Ledger, a, b).err # ""

BatchShapeErrors ==
    {"Array length mismatch", "Cannot cast empty batch",
     "Batch size limited to 5 votes for gas efficiency"}

\* C16: batchCastVotes is rejected as invalid input, with no state change, when its
\* three arrays differ in length, are empty or have more than 5 elements.
C16_BatchCastShape ==
    \A a \in Addr, b \in CastBatches :
        (~EqualLength(b) \/ Len(b.voteIds) = 0 \/ Len(b.voteIds) > 5) =>
            LET r == batchCastVotesTx(Ledger, a, now, b)
            IN /\ r.err \in BatchShapeErrors
               /\ r.state = Ledger
               /\ BatchCastVotes(Ledger, a, now, b.voteIds, b.encryptedChoices,
                                 b.inputProofs).state = Ledger

\* a ballot that took a cast from a batch and is open to a voter, for whom a batch
\* of one is accepted while batches of 0 and of 6 and ragged arrays are refused
C16_Witness ==
    \E a \in Addr :
        /\ Open(1) /\ GetVoteCount(Ledger, 1) = 1 /\ ~HasVotedInVote(Ledger, 1, a)
        /\ Open(2) /\ GetVoteCount(Ledger, 2) = 1 /\ hasVoted[2] = hasVoted[1]
        /\ \E b \in CastBatches :
               Len(b.voteIds) = 1 /\ batchCastVotesTx(Ledger, a, now, b).err = ""
        /\ \E b \in CastBatches :
               Len(b.voteIds) = 6 /\ batchCastVotesTx(Ledger, a, now, b).err
                   = "Batch size limited to 5 votes for gas efficiency"
        /\ \E b \in CastBatches :
               ~EqualLength(b) /\ batchCastVotesTx(Ledger, a, now, b).err
                   = "Array length mismatch"

\* the castVote calls for the elements i, i+1, .. of batch b, made one after
\* another by sender at time t, stopping at the first that fails
RECURSIVE CastEach(_, _, _, _, _)
CastEach(L, sender, t, b, i) ==
    IF i > Len(b.voteIds) THEN [ok |-> TRUE, state |-> L]
    ELSE LET r == castVoteTx(L, sender, t, b.voteIds[i],
                             <<b.encryptedChoices[i], b.inputProofs[i]>>)
         IN IF r.err # "" THEN [ok |-> FALSE, state |-> L]
            ELSE CastEach(r.state, sender, t, b, i + 1)

\* C17: a batchCastVotes call over b1..bn (1 <= n <= 5) succeeds exactly when the
\* n castVote calls by the same caller, in that order at that time, all succeed,
\* and then leaves the cast counts, cast records, encrypted-choice lists and
\* handle permissions those calls leave.
C17_BatchAsSingles ==
    \A a \in Addr, b \in CastBatches :
        (EqualLength(b) /\ 1 <= Len(b.voteIds) /\ Len(b.voteIds) <= 5) =>
            LET r == batchCastVotesTx(Ledger, a, now, b)
                q == CastEach(Ledger, a, now, b, 1)
            IN /\ r.err = "" <=> q.ok
               /\ q.ok => /\ r.state.voteCount = q.state.voteCount
                          /\ r.state.hasVoted = q.state.hasVoted
                          /\ r.state.encryptedVoteChoices = q.state.encryptedVoteChoices
                          /\ r.state.acl = q.state.acl
                          /\ r.state.events = q.state.events

\* two ballots, one open and one active but not open (not started, or past its
\* end): a batch of two on the first fails on its second element, as the two
\* calls do, and a batch of one on it succeeds
C17_Witness ==
    \E a \in Addr, v, w \in VoteIds :
        /\ Open(v) /\ GetVoteCount(Ledger, v) = 1 /\ ~HasVotedInVote(Ledger, v, a)
        /\ votes[w].active /\ ~InWindow(w)
        /\ \E b \in CastBatches :
               /\ Len(b.voteIds) = 2 /\ b.voteIds[1] = v /\ b.voteIds[2] = w
               /\ ~CastEach(Ledger, a, now, b, 1).ok
               /\ CastEach(Ledger, a, now, b, 2).ok = FALSE
               /\ batchCastVotesTx(Ledger, a, now, CastArrays(<<
                      [voteId |-> v, encrypted |-> 0, proof |-> TRUE]>>)).err = ""

\* C18: a cast whose input the gateway rejects fails: the caller is not marked as
\* having voted, the cast count and the encrypted-choice list are as before, and
\* the caller's cast with a valid input still succeeds afterwards.
C18_RejectedProof ==
    /\ \A a \in Addr, v \in VoteIds, e \in Choices :
           LET r == castVoteTx(Ledger, a, now, v, <<e, FALSE>>)
           IN /\ r.err # ""
              /\ r.state.hasVoted = hasVoted
              /\ r.state.voteCount = voteCount
              /\ r.state.encryptedVoteChoices = encryptedVoteChoices
              /\ (Open(v) /\ a \notin hasVoted[v])
                     => castVoteTx(r.state, a, now, v, <<e, TRUE>>).err = ""
    /\ \A a \in Addr, b \in CastBatches :
           (EqualLength(b) /\ \E i \in 1 .. Len(b.voteIds) :
                                  ProofRejected(b.encryptedChoices[i], b.inputProofs[i])) =>
               LET r == batchCastVotesTx(Ledger, a, now, b)
               IN /\ r.err # ""
                  /\ r.state.hasVoted = hasVoted
                  /\ r.state.voteCount = voteCount
                  /\ r.state.encryptedVoteChoices = encryptedVoteChoices
                  /\ \A i \in 1 .. Len(b.voteIds) :
                         (Open(b.voteIds[i]) /\ a \notin hasVoted[b.voteIds[i]]) =>
                             castVoteTx(r.state, a, now, b.voteIds[i],
                                        <<b.encryptedChoices[i], TRUE>>).err = ""

\* an open ballot with one cast on it and a voter who has not voted, whose cast
\* fails on the proof alone
C18_Witness ==
    \E a \in Addr, v \in VoteIds :
        /\ Open(v) /\ GetVoteCount(Ledger, v) = 1 /\ ~HasVotedInVote(Ledger, v, a)
        /\ castVoteTx(Ledger, a, now, v, <<1, FALSE>>).err = "Invalid input proof"
        /\ castVoteTx(Ledger, a, now, v, <<1, TRUE>>).err = ""


\* the handles stored for ballot v
StoredHandles(v) ==
    {encryptedVoteChoices[v][i] : i \in 1 .. Len(encryptedVoteChoices[v])}

\* C19 (state part): a successful cast stores the handle of its input last in the
\* ballot's list with the contract and the voter in its permission set, and every
\* stored handle has the contract in its permission set
C19_Granted ==
    /\ \A a \in Addr, v \in VoteIds, c \in CastInputs :
           LET r == castVoteTx(Ledger, a, now, v, c)
               list == r.state.encryptedVoteChoices[v]
           IN r.err = "" =>
                  /\ list = Append(encryptedVoteChoices[v], FromExternal(a, c[1]))
                  /\ {This, a} \subseteq r.state.acl[list[Len(list)]]
    /\ \A a \in Addr, b \in CastBatches :
           LET r == batchCastVotesTx(Ledger, a, now, b)
           IN r.err = "" =>
                  \A i \in 1 .. Len(b.voteIds) :
                      LET list == r.state.encryptedVoteChoices[b.voteIds[i]]
                      IN /\ list[Len(list)] = FromExternal(a, b.encryptedChoices[i])
                         /\ {This, a} \subseteq r.state.acl[list[Len(list)]]
    /\ \A v \in SlotIds : \A h \in StoredHandles(v) :
           This \in acl[h] /\ acl[h] \cap hasVoted[v] # {}
\* C19 (step part): no step removes a principal from a handle's permission set
C19_Grows == \A h \in Handles : acl[h] \subseteq acl'[h]

\* C19: after a successful cast the permission set of the stored handle holds the
\* contract and the voter, and the permission set of a handle only ever grows.
C19_PermissionsGrow == [](C19_Granted) /\ [][C19_Grows]_vars

\* a stored handle whose permission set has grown by a decryption request of a
\* principal other than the voter
C19_Witness ==
    \E v \in VoteIds : \E h \in StoredHandles(v) :
        /\ acl[h] = Principals
        /\ Cardinality(hasVoted[v]) = 1
        /\ CountEvents(Ledger, "VoteDecrypted") = 1

\* C20: for every stored handle, no principal other than the voter who cast it and
\* the contract itself ever has decrypt capability on it.
C20_Original ==
    \A v \in SlotIds : \A h \in StoredHandles(v) :
        acl[h] \subseteq ({This} \cup hasVoted[v]) /\ acl[h] \subseteq {This, h[1]}

\* the elements of a sequence

\* C21 as stated: after a getEncryptedVoteChoices call by p on a ballot, p is in
\* the permission set of every handle the call returned.
C21_Original ==
    \A p \in Addr, v \in VoteIds :
        LET r == getEncryptedVoteChoicesTx(Ledger, p, v)
        IN r.err = "" /\ \A h \in Range(r.ret) : p \in r.state.acl[h]

\* C21: requestDecryptVoteResults returns the ballot's encrypted-choice list and
\* leaves its caller (and the contract) in the permission set of every handle of
\* it; getEncryptedVoteChoices returns the same list and changes no permission.
C21_RequestGrants ==
    \A p \in Addr, v \in VoteIds :
        LET r == requestDecryptVoteResultsTx(Ledger, p, v)
            g == getEncryptedVoteChoicesTx(Ledger, p, v)
        IN /\ r.err = "" /\ r.ret = encryptedVoteChoices[v]
           /\ \A h \in Range(r.ret) : {p, This} \subseteq r.state.acl[h]
           /\ \A h \in Handles \ Range(r.ret) : r.state.acl[h] = acl[h]
           /\ g.err = "" /\ g.ret = encryptedVoteChoices[v] /\ g.state.acl = acl

\* a ballot with two casts on which a decryption request was made: its caller is
\* in the permission set of both handles, the other voter only in that of its own
C21_Witness ==
    \E p, q \in Addr, v \in VoteIds :
        /\ Len(encryptedVoteChoices[v]) = 2 /\ p # q
        /\ Emitted(<<"VoteDecrypted", v, p>>) = 1
        /\ \A h \in Range(encryptedVoteChoices[v]) : p \in acl[h]
        /\ \E h \in Range(encryptedVoteChoices[v]) : q \notin acl[h]

\* C22: getVote with an id for which no ballot was created fails (NotFound) and
\* returns no ballot value.
C22_Original ==
    \A p \in Addr, v \in SlotIds :
        ~Exists(v) => getVoteTx(Ledger, p, v).err # ""

(***************************************************************************)
(* Properties of the decryption sessions                                   *)
(***************************************************************************)
\* the tally a finished session returned
Returned(s) == CHOOSE r \in sessions[s].results : TRUE
Finished(s, kind) == sessions[s].kind = kind /\ sessions[s].pc = "done"
\* the casts of ballot v that chose option k
CastsFor(v, k) ==
    {i \in 1 .. Len(encryptedVoteChoices[v]) : Plain(encryptedVoteChoices[v][i]) = k}
RECURSIVE SumCounts(_, _)
SumCounts(results, i) ==
    IF i > Len(results) THEN 0 ELSE results[i].count + SumCounts(results, i + 1)

C24_Original ==
    \A p \in Addr, v \in CoordVoteIds :
        decryptedResults[p][v] # {} => ~votes[v].active

\* the handle address p's cast appended to ballot v's list
OwnCast(v, p) == CHOOSE h \in Range(encryptedVoteChoices[v]) : h[1] = p
\* C25: decryptUserVote, called by an address that has cast on the ballot,
\* returns the option index that address cast, whoever else has cast and in
\* whichever position of the list its cast stands.
C25_Original ==
    \A s \in SessionIds :
        Finished(s, "user") =>
            sessions[s].userVote = Plain(OwnCast(sessions[s].voteId, sessions[s].caller))

ReadEmpty(s) ==
    /\ sessions[s].kind = "results"
    /\ sessions[s].pc \notin {"request", "read"}
    /\ sessions[s].handles = <<>>
C26_ReturnsEmpty ==
    \A s \in SessionIds :
        ReadEmpty(s) =>
            /\ sessions[s].pc = "done"
            /\ sessions[s].results = {<<>>}
            /\ sessions[s].authorization = <<>>
            /\ ~sessions[s].submitted
            /\ ~votes[sessions[s].voteId].active
C26_StoresEmpty ==
    \A s \in SessionIds :
        ReadEmpty(s)' /\ sessions[s].pc = "read" =>
            LET p == sessions[s].caller
                v == sessions[s].voteId
            IN /\ decryptedResults' = [decryptedResults EXCEPT ![p][v] = {<<>>}]
               /\ localStorage'[p].decryptedResults = decryptedResults'[p]
               /\ UNCHANGED <<decryptedUserVotes, keypairs>>
               /\ UNCHANGED ledgerVars
C26_ActiveRefused ==
    \A v \in CoordVoteIds : votes[v].active <=> CheckVoteStatus(Ledger, v) # ""
ballotVars == <<owner, nextVoteId, votes, encryptedVoteChoices, hasVoted, voteCount>>
C28_RequestFrame ==
    \A p \in Addr, v \in VoteIds :
        LET r == requestDecryptVoteResultsTx(Ledger, p, v)
        IN /\ r.err = ""
           /\ r.state.owner = owner /\ r.state.nextVoteId = nextVoteId
           /\ r.state.votes = votes /\ r.state.voteCount = voteCount
           /\ r.state.hasVoted = hasVoted
           /\ r.state.encryptedVoteChoices = encryptedVoteChoices
C28_SessionFrame == sessions' # sessions => UNCHANGED ballotVars
\* C28: requestDecryptVoteResults, and every step of a decryptVoteResults or
\* decryptUserVote session (which may end, fail or stop after any step), leaves
\* every ballot's fields and active flag, the cast counts, the cast records, the
\* encrypted-choice lists and the next-ballot-id counter as they were.
C28_DecryptionLeavesBallots == []C28_RequestFrame /\ [][C28_SessionFrame]_vars
\* on an active ballot with a cast, one session's request was mined and the
\* session then failed, another's request was mined and it has gone no further
C28_Witness ==
    \E s, t \in SessionIds :
        /\ sessions[s].pc = "failed" /\ sessions[s].submitted
        /\ sessions[t].pc = "sign" /\ sessions[t].kind = "user"
        /\ votes[sessions[t].voteId].active
        /\ \A h \in Range(sessions[t].handles) : sessions[t].caller \in acl[h]
        /\ Emitted(<<"VoteDecrypted", sessions[t].voteId, sessions[t].caller>>) >= 1

\* a step in which a session's signature request or userDecrypt call fails
Fails(s) == sessions[s].error = "" /\ sessions[s]'.error # ""
C29_FailureStoresNothing ==
    \A s \in SessionIds :
        Fails(s) =>
            /\ UNCHANGED <<decryptedResults, decryptedUserVotes, localStorage>>
            /\ sessions[s]'.pc = "failed"
            /\ sessions[s]'.results = {} /\ sessions[s]'.userVote = -1
C29_StoredOnlyOnReturn ==
    \/ UNCHANGED <<decryptedResults, decryptedUserVotes, localStorage>>
    \/ \E s \in SessionIds :
           sessions[s].pc # "done" /\ sessions[s]'.pc = "done" /\ sessions[s]'.error = ""
C29_FailedStaysFailed ==
    \A s \in SessionIds : sessions[s].pc = "failed" => sessions[s]' = sessions[s]
\* every session starts without an authorization and signs one made of the key
\* and the timestamp it prepared itself; generated keys differ between sessions
C29_BuildsItsOwn ==
    \A s \in SessionIds :
        /\ sessions[s].pc \in {"idle", "request", "read", "sign"} =>
               sessions[s].authorization = <<>> /\ ~sessions[s].submitted
        /\ sessions[s].submitted =>
               sessions[s].authorization = <<Authorization(sessions[s])>>
        /\ \A t \in SessionIds \ {s} :
               /\ hasGenerateKeypair
               /\ sessions[s].submitted /\ sessions[t].submitted
               => sessions[s].authorization # sessions[t].authorization
C30_Original ==
    \A s, t \in SessionIds :
        s # t /\ sessions[s].submitted /\ sessions[t].submitted
        => sessions[s].authorization # sessions[t].authorization

(***************************************************************************)
(* Properties of the statistics, the lists, the events and the counters    *)
(***************************************************************************)
\* C32: getVoteStatistics reports isActive = TRUE exactly for a ballot that
\* accepts casts now (its active flag is set and startTime <= now <= endTime),
\* and FALSE both before the voting period and after it.
C32_Original ==
    \A p \in Addr, v \in VoteIds :
        Exists(v) =>
            LET r == getVoteStatisticsTx(Ledger, p, now, v)
            IN r.err = "" /\ (r.ret.isActive <=> Open(v))

\* list a begins list b
Prefix(a, b) == Len(a) <= Len(b) /\ SubSeq(b, 1, Len(a)) = a
\* C33: every ballot's encrypted-choice list only grows at its end: the list of
\* a state begins the list of the next state, so no stored handle is replaced,
\* moved or removed.
C33_ListAppendOnly ==
    [][\A v \in SlotIds : Prefix(encryptedVoteChoices[v], encryptedVoteChoices'[v])]_vars
\* a ballot's list holds the handles of two voters in the order they cast
C33_Witness ==
    \E v \in VoteIds, a, b \in Addr :
        /\ a # b
        /\ Len(encryptedVoteChoices[v]) = 2
        /\ encryptedVoteChoices[v][1][1] = a /\ encryptedVoteChoices[v][2][1] = b

\* the events of one name emitted for ballot v
EmittedFor(name, v) ==
    LET es == {e \in EventsNamed(Ledger, name) : e[2] = v}
    IN BagCardinality([e \in es |-> CopiesIn(e, events)])
\* C34: for every ballot id, one VoteCreated (naming the creator) has been
\* emitted if the ballot exists and none otherwise; one VoteCast has been
\* emitted for every address that has cast on it and none for any other, as many
\* as its cast count; one VotingEnded has been emitted if it is closed and none
\* otherwise. A call that fails leaves the events as they were.
C34_EventsMatchState ==
    /\ \A v \in SlotIds :
           /\ EmittedFor("VoteCreated", v) = (IF Exists(v) THEN 1 ELSE 0)
           /\ Exists(v) => Emitted(<<"VoteCreated", v, votes[v].creator>>) = 1
           /\ \A a \in Addr :
                  Emitted(<<"VoteCast", v, a>>) = (IF a \in hasVoted[v] THEN 1 ELSE 0)
           /\ EmittedFor("VoteCast", v) = voteCount[v]
           /\ EmittedFor("VotingEnded", v) = (IF Closed(v) THEN 1 ELSE 0)
    /\ \A p \in Addr, v \in VoteIds :
           /\ \A c \in CastInputs :
                  LET r == castVoteTx(Ledger, p, now, v, c)
                  IN r.err # "" => r.state.events = events
           /\ LET r == endVoteTx(Ledger, p, now, v)
              IN r.err # "" => r.state.events = events
\* a ballot was created, cast on by two addresses and closed
C34_Witness ==
    \E v \in VoteIds :
        /\ Closed(v) /\ voteCount[v] = 2
        /\ EmittedFor("VoteCreated", v) = 1 /\ EmittedFor("VoteCast", v) = 2
        /\ EmittedFor("VotingEnded", v) = 1

\* C35: every ballot's cast count is the number of addresses marked as having
\* voted on it, so the uniqueVoters (and totalVotes) that getVoteStatistics
\* returns for a ballot is the number of distinct addresses that cast on it.
C35_CountIsDistinctVoters ==
    /\ \A v \in SlotIds : GetVoteCount(Ledger, v) = Cardinality(hasVoted[v])
    /\ \A p \in Addr, v \in VoteIds :
           Exists(v) =>
               LET r == getVoteStatisticsTx(Ledger, p, now, v)
               IN /\ r.err = ""
                  /\ r.ret.uniqueVoters =
                         Cardinality({a \in Addr : HasVotedInVote(Ledger, v, a)})
                  /\ r.ret.totalVotes = r.ret.uniqueVoters
\* getVoteStatistics reports two unique voters for a ballot two addresses cast on
C35_Witness ==
    \E v \in VoteIds :
        /\ hasVoted[v] = Addr
        /\ getVoteStatisticsTx(Ledger, 1, now, v).ret.uniqueVoters = NumAddr

C36_Counter == nextVoteId >= 1
C36_Ids ==
    \A v \in SlotIds :
        /\ Exists(v) <=> v \in 1 .. (GetNextVoteId(Ledger) - 1)
        /\ ~Exists(v) =>
               /\ voteCount[v] = 0
               /\ encryptedVoteChoices[v] = <<>>
               /\ hasVoted[v] = {}
\* C36: the id counter is at least 1 and never decreases; a ballot exists for
\* exactly the ids 1 .. nextVoteId - 1; every other id has no casts, an empty
\* list and no cast records.
C36_IdsDense == [](C36_Counter /\ C36_Ids) /\ [][nextVoteId' >= nextVoteId]_vars
\* two ballots exist, one of them cast on; id 0 and id 3 hold nothing
C36_Witness ==
    /\ nextVoteId = 3 /\ Exists(1) /\ Exists(2) /\ ~Exists(0) /\ ~Exists(3)
    /\ \E v \in {1, 2} : voteCount[v] >= 1

\* the batches that name one ballot id in two elements
Repeats(b) ==
    \E i, j \in 1 .. Len(b.voteIds) : i # j /\ b.voteIds[i] = b.voteIds[j]
\* the handles `a` has stored on ballot v
StoredBy(v, a) ==
    {i \in 1 .. Len(encryptedVoteChoices[v]) : encryptedVoteChoices[v][i][1] = a}
\* C38: a batchCastVotes call that names the same ballot id in two elements is
\* rejected as a whole and writes nothing, so the caller has cast on no ballot
\* of the batch through it; no address ever has two handles stored on a ballot.
C38_RepeatedIdRejected ==
    /\ \A p \in Addr, b \in CastBatches :
           Repeats(b) =>
               LET r == batchCastVotesTx(Ledger, p, now, b)
               IN r.err # "" /\ r.state = Ledger
    /\ \A v \in SlotIds, a \in Addr : Cardinality(StoredBy(v, a)) <= 1
\* a batch of two valid elements on one open ballot, by an address that has not
\* cast on it and whose single cast would be accepted, is rejected
C38_Witness ==
    \E p \in Addr, v \in VoteIds :
        /\ Open(v) /\ p \notin hasVoted[v]
        /\ castVoteTx(Ledger, p, now, v, <<0, TRUE>>).err = ""
        /\ batchCastVotesTx(Ledger, p, now,
                            [voteIds |-> <<v, v>>, encryptedChoices |-> <<0, 0>>,
                             inputProofs |-> <<TRUE, TRUE>>]).err = "Already voted"

(***************************************************************************)
(* Properties of the grants under interleaving                             *)
(***************************************************************************)
\* session s is about to call userDecrypt
AtDecrypt(s) == sessions[s].pc = "decrypt"
\* the caller of session s, and the contract, are allowed on every handle it holds
Granted(s) ==
    \A h \in Range(sessions[s].handles) : {sessions[s].caller, This} \subseteq acl[h]
ValidTally(v, r) ==
    \A i \in 1 .. Len(r) : r[i].optionId < Len(GetVote(Ledger, v).options)
OnlyStored(w, storage) ==
    \A v \in VoteIds :
        /\ w.decryptedResults[v] \subseteq storage[w.address].decryptedResults[v]
        /\ w.decryptedUserVotes[v] \subseteq storage[w.address].decryptedUserVotes[v]
\* C40: when the connected wallet address changes from A to B, the hook's
\* decryptedResults and decryptedUserVotes hold only entries stored under B's
\* key afterwards (also when B has nothing stored); as what the hook writes
\* under a key is its in-memory map, nothing of A is later written under B's key.
C40_Original ==
    [][(wallet.address # ZeroAddr /\ wallet'.address # ZeroAddr
        /\ wallet'.address # wallet.address)
       => OnlyStored(wallet', localStorage')]_vars

\* floor(castCount * 100 / expected), capped at 100
ClaimedRate(castCount, expected) ==
    IF expected = 0 THEN 0
    ELSE LET q == (castCount * 100) \div expected IN IF q > 100 THEN 100 ELSE q
\* C31: getParticipationRate on an existing ballot returns
\* (min(100, floor(castCount * 100 / expected)), castCount), and (0, castCount)
\* for expected = 0, for every cast count; the rate is between 0 and 100.
C31_Original ==
    rateCall.out # <<>> =>
        LET o == rateCall.out[1]
        IN /\ o.err = ""
           /\ o.ret.actualVotes = rateCall.actualVotes
           /\ o.ret.participationRate \in 0 .. 100
           /\ o.ret.participationRate =
                  ClaimedRate(rateCall.actualVotes, rateCall.expectedParticipants)
====
